---- MODULE Spec2Model ----
(***************************************************************************)
(* The random modal 3CNF formula generator of FormulaGenerator/generator.py *)
(* as a state machine.  One action per function call that may consume a     *)
(* random draw (rnd_length, rnd_propnum, rnd_propositional_atom, rnd_box,   *)
(* rnd_sign) and one per control point of rnd_clause, rnd_CNF and main.     *)
(* Text is a sequence of Unicode code points, so that sorting, joining and  *)
(* prefix tests act on the characters as Python's str does.                 *)
(* The module also holds the pipeline of FormulaGenerator/pipeline.py, one  *)
(* action per command started, command exited and file test of its main,    *)
(* the LCKS5 conversion of FormulaGenerator/wrapper.py, and the reading of  *)
(* the generated text by FormulaGenerator/converter.py.                     *)
(***************************************************************************)
EXTENDS Integers, Sequences, FiniteSets, TLC

VARIABLES
    cfg,           \* args of main: depth, clauses, variables, boxes, C, p, count, seed
    pc,            \* main: "start" | "loop" | "cnf" | "done" | "error" | "raised";
                   \*   "format" | "formatted" when format_formula is called by itself
    err,           \* the parameter named by the error message, or the exception raised
    seeded,        \* number of calls of random.seed
    drawn,         \* TRUE once the random source has been consumed
    last_draw,     \* the draw consumed by the last step ("none" when it consumed none)
    i,             \* main's loop index
    output_lines,  \* main's output_lines
    output_text,   \* main's output_text (<<>> until it is joined)
    clauses,       \* rnd_CNF's clauses
    cnf_attempts,  \* rnd_CNF's attempts
    stack,         \* the active rnd_clause calls, innermost last
    cnf_calls,     \* history: the rnd_clause calls the current rnd_CNF has made
    args,          \* args of pipeline.py's main
    pipeline_pc,   \* pipeline.py's main: "generator" | "verify_generated" | "converter"
                   \*   | "verify_converted" | "wrapper" | "summary" | "complete" | "exit"
    cmd_index,     \* which of its generator commands main stands at
    child,         \* the command run_command waits for, <<>> when there is none
    log,           \* history: the commands started, each with the way it ended
    generated_file,\* whether the generated file exists, and the generator command whose
                   \*   run wrote it (0: none of this run)
    converted_file,\* whether the converted file exists
    exit_status,   \* pipeline.py's exit status, -1 while it runs
    reported,      \* the number of formulas the summary reports, -1 before it
    formula,       \* wrapper.py: the formula given to convert_to_lcks5
    lcks5,         \* wrapper.py: <<its result>>, <<>> before the call
    converted      \* converter.py: <<the list convert_multiple_formulas returned>>,
                   \*   <<>> before the call

\* the state of pipeline.py, of wrapper.py and of converter.py
tool_vars == <<args, pipeline_pc, cmd_index, child, log, generated_file, converted_file,
               exit_status, reported, formula, lcks5, converted>>

vars == <<cfg, pc, err, seeded, drawn, last_draw, i, output_lines, output_text,
          clauses, cnf_attempts, stack, cnf_calls, tool_vars>>

---------------------------------------------------------------------------
(* Bounds of the model *)

\* random.random() is drawn from the grid {0, 1/DrawGrid, ..., (DrawGrid-1)/DrawGrid}
DrawGrid == 4
\* largest --variables, --boxes, --clauses, --depth, --count explored
MaxN == 2
MaxM == 1
MaxL == 3
MaxDepth == 1
MaxCount == 2
\* longest formula given to convert_to_lcks5
MaxText == 6

(* Program constants *)
max_attempts == 100
default_length == 3
cnf_budget_factor == 10

Draws == 0 .. (DrawGrid - 1)

---------------------------------------------------------------------------
(* Text: sequences of code points *)

ch_newline == <<10>>
ch_space == <<32>>
ch_lparen == <<40>>
ch_rparen == <<41>>
ch_dot == <<46>>
ch_A == <<65>>
ch_not == <<172>>
ch_and == <<8743>>
ch_or == <<8744>>
ch_box == <<9633>>

RECURSIVE str(_)
\* Python's str(n) / f"{n}" of a non-negative integer: its decimal digits
str(n) ==
    IF n < 10 THEN <<48 + n>> ELSE str(n \div 10) \o <<48 + (n % 10)>>

\* Python's str comparison a < b: code point by code point, a proper prefix is smaller
RECURSIVE str_lt(_, _)
str_lt(a, b) ==
    IF b = <<>> THEN FALSE
    ELSE IF a = <<>> THEN TRUE
    ELSE IF Head(a) # Head(b) THEN Head(a) < Head(b)
    ELSE str_lt(Tail(a), Tail(b))

\* s.startswith(prefix)
startswith(s, prefix) ==
    /\ Len(s) >= Len(prefix)
    /\ SubSeq(s, 1, Len(prefix)) = prefix

RECURSIVE insert_sorted(_, _)
insert_sorted(x, s) ==
    IF s = <<>> THEN <<x>>
    ELSE IF str_lt(x, Head(s)) THEN <<x>> \o s
    ELSE <<Head(s)>> \o insert_sorted(x, Tail(s))

\* fault variant of sorted: the list is left in the order it has
sorted_as_drawn(s) == s

RECURSIVE sorted(_)
\* Python's sorted() on a list of str (stable; equal strings are the same text)
sorted(s) ==
    IF s = <<>> THEN <<>>
    ELSE insert_sorted(s[Len(s)], sorted(SubSeq(s, 1, Len(s) - 1)))

RECURSIVE join(_, _)
\* sep.join(parts)
join(sep, parts) ==
    IF parts = <<>> THEN <<>>
    ELSE IF Len(parts) = 1 THEN parts[1]
    ELSE parts[1] \o sep \o join(sep, Tail(parts))

RECURSIVE sum(_)
sum(dist) == IF dist = <<>> THEN 0 ELSE Head(dist) + sum(Tail(dist))


\* Python's list[k] for a 1-indexed TLA+ sequence: a negative k counts from the end
py_index(list, k) == IF k >= 0 THEN list[k + 1] ELSE list[Len(list) + k + 1]

\* list[k] raises IndexError
py_index_raises(list, k) == k >= Len(list) \/ k < -Len(list)

---------------------------------------------------------------------------
(* Distribution sampler *)

RECURSIVE walk(_, _, _, _, _)
\* "for i, val in enumerate(dist): cumulative += val; if r <= cumulative: return i"
\* with r = (u / DrawGrid) * total; -1 when the loop ends without returning
walk(dist, idx, cumulative, u, total) ==
    IF idx > Len(dist) THEN -1
    ELSE LET c == cumulative + dist[idx]
         IN  IF u * total <= c * DrawGrid THEN idx - 1
             ELSE walk(dist, idx + 1, c, u, total)

\* rnd_length consumes random.random()
length_draws(d, C) == d < Len(C) /\ sum(C[d + 1]) # 0

\* fault variant of rnd_length: a depth outside the table yields a unit clause
rnd_length_unit_fallback(d, C, u) ==
    IF d >= Len(C) THEN 1
    ELSE LET dist == C[d + 1]
             total == sum(dist)
         IN  IF total = 0 THEN Len(dist)
             ELSE LET w == walk(dist, 1, 0, u, total)
                  IN  IF w >= 0 THEN w + 1 ELSE Len(dist)

\* fault variant of rnd_length: an all-zero vector yields its first index
rnd_length_zero_first(d, C, u) ==
    IF d >= Len(C) THEN default_length
    ELSE LET dist == C[d + 1]
             total == sum(dist)
         IN  IF total = 0 THEN 1
             ELSE LET w == walk(dist, 1, 0, u, total)
                  IN  IF w >= 0 THEN w + 1 ELSE Len(dist)

\* rnd_length(d, C) when random.random() returns u / DrawGrid
rnd_length(d, C, u) ==
    IF d >= Len(C) THEN default_length
    ELSE LET dist == C[d + 1]
             total == sum(dist)
         IN  IF total = 0 THEN Len(dist)
             ELSE LET w == walk(dist, 1, 0, u, total)
                  IN  IF w >= 0 THEN w + 1 ELSE Len(dist)

\* rnd_propnum(d, p, K) raises IndexError at "length_dist = depth_dist[K - 1]"
propnum_raises(d, p, K) ==
    /\ d < Len(p)
    /\ ~(K - 1 >= Len(p[d + 1]))
    /\ py_index_raises(p[d + 1], K - 1)

\* rnd_propnum consumes random.random()
propnum_draws(d, p, K) ==
    /\ d < Len(p)
    /\ ~(K - 1 >= Len(p[d + 1]))
    /\ ~py_index_raises(p[d + 1], K - 1)
    /\ sum(py_index(p[d + 1], K - 1)) # 0

\* fault variant of rnd_propnum: outside the table the count is 1
rnd_propnum_unit_fallback(d, p, K, u) ==
    IF d >= Len(p) THEN 1
    ELSE LET depth_dist == p[d + 1]
         IN  IF K - 1 >= Len(depth_dist) THEN 1
             ELSE LET length_dist == py_index(depth_dist, K - 1)
                      total == sum(length_dist)
                  IN  IF total = 0 THEN 0
                      ELSE LET w == walk(length_dist, 1, 0, u, total)
                           IN  IF w >= 0 THEN w ELSE 0

\* rnd_propnum(d, p, K) when it does not raise and random.random() returns u / DrawGrid
rnd_propnum(d, p, K, u) ==
    IF d >= Len(p) THEN 0
    ELSE LET depth_dist == p[d + 1]
         IN  IF K - 1 >= Len(depth_dist) THEN 0
             ELSE LET length_dist == py_index(depth_dist, K - 1)
                      total == sum(length_dist)
                  IN  IF total = 0 THEN 0
                      ELSE LET w == walk(length_dist, 1, 0, u, total)
                           IN  IF w >= 0 THEN w ELSE 0

\* rnd_sign() when random.random() returns u / DrawGrid: u / DrawGrid < 0.5
rnd_sign(u) == 2 * u < DrawGrid

\* rnd_propositional_atom(N) when random.randint(1, N) returns n
rnd_propositional_atom(n) == ch_A \o str(n)

\* rnd_box(m) when random.randint(1, m) returns n
rnd_box(n) == ch_box \o str(n)

---------------------------------------------------------------------------
(* Clause builder *)

\* fault variant of literal_atom: the negation sign is not removed
literal_atom_signed(literal) == literal

\* "atom = literal[1:] if literal.startswith('¬') else literal"
literal_atom(literal) ==
    IF startswith(literal, ch_not) THEN Tail(literal) ELSE literal

RECURSIVE no_repeated_from(_, _, _)
\* the loop of no_repeated_atoms_in from literal k on, atoms being the set so far
no_repeated_from(clause, k, atoms) ==
    IF k > Len(clause) THEN TRUE
    ELSE LET atom == literal_atom(clause[k])
         IN  IF atom \in atoms THEN FALSE
             ELSE no_repeated_from(clause, k + 1, atoms \cup {atom})

no_repeated_atoms_in(clause) == no_repeated_from(clause, 1, {})

\* ' ∨ '.join(sorted(clause))
clause_text(clause) == join(ch_space \o ch_or \o ch_space, sorted(clause))

\* f"¬{atom}" if sign else atom
make_literal(atom, sign) == IF sign THEN ch_not \o atom ELSE atom

\* the frame of a call rnd_clause(d, m, N, p, C) on entry; K, P and clause are
\* unbound in Python until first assigned, and are never read before.  History:
\* degraded_inner tells that a rnd_clause call made for a literal of the clause
\* under way, at any depth below, returned through the final return statement
new_frame(d) ==
    [d |-> d, attempts |-> 0, K |-> 0, P |-> 0, j |-> 0, clause |-> <<>>,
     atom |-> <<>>, pc |-> "length", degraded_inner |-> FALSE]

\* fault variant of loop_pc: the modal literals are made first
loop_pc_modal_first(P, K, j) ==
    IF j < K - P THEN "atom" ELSE IF j < K THEN "prop_atom" ELSE "check"

\* where the two for loops of rnd_clause stand after j literals
loop_pc(P, K, j) ==
    IF j < P THEN "prop_atom" ELSE IF j < K THEN "atom" ELSE "check"

Top == stack[Len(stack)]

SetTop(f) == [stack EXCEPT ![Len(stack)] = f]

InClause(at) == pc = "cnf" /\ stack # <<>> /\ Top.pc = at

\* the step consumes a draw of the given kind, or none
Consume(draws, kind) ==
    /\ drawn' = (drawn \/ draws)
    /\ last_draw' = IF draws THEN kind ELSE "none"

\* K = rnd_length(d, C)
RndLength ==
    /\ InClause("length")
    /\ \E u \in Draws :
         /\ stack' = SetTop([Top EXCEPT !.K = rnd_length(Top.d, cfg.C, u),
                                        !.pc = "propnum"])
         /\ Consume(length_draws(Top.d, cfg.C), "length")
    /\ UNCHANGED <<tool_vars, cfg, pc, err, seeded, i, output_lines, output_text,
                   clauses, cnf_attempts, cnf_calls>>

\* fault variant of RndPropnum: the literals of the attempt before are kept
RndPropnumKeepsClause ==
    /\ InClause("propnum")
    /\ IF propnum_raises(Top.d, cfg.p, Top.K)
       THEN /\ pc' = "raised"
            /\ err' = "IndexError"
            /\ Consume(FALSE, "propnum")
            /\ UNCHANGED stack
       ELSE /\ \E u \in Draws :
                 LET P == rnd_propnum(Top.d, cfg.p, Top.K, u)
                 IN  stack' = SetTop([Top EXCEPT !.P = P, !.j = 0,
                                                 !.degraded_inner = FALSE,
                                                 !.pc = loop_pc(P, Top.K, 0)])
            /\ Consume(propnum_draws(Top.d, cfg.p, Top.K), "propnum")
            /\ UNCHANGED <<pc, err>>
    /\ UNCHANGED <<tool_vars, cfg, seeded, i, output_lines, output_text, clauses, cnf_attempts,
                   cnf_calls>>

\* P = rnd_propnum(d, p, K); clause = []; or the IndexError leaves main uncaught
RndPropnum ==
    /\ InClause("propnum")
    /\ IF propnum_raises(Top.d, cfg.p, Top.K)
       THEN /\ pc' = "raised"
            /\ err' = "IndexError"
            /\ Consume(FALSE, "propnum")
            /\ UNCHANGED stack
       ELSE /\ \E u \in Draws :
                 LET P == rnd_propnum(Top.d, cfg.p, Top.K, u)
                 IN  stack' = SetTop([Top EXCEPT !.P = P, !.clause = <<>>, !.j = 0,
                                                 !.degraded_inner = FALSE,
                                                 !.pc = loop_pc(P, Top.K, 0)])
            /\ Consume(propnum_draws(Top.d, cfg.p, Top.K), "propnum")
            /\ UNCHANGED <<pc, err>>
    /\ UNCHANGED <<tool_vars, cfg, seeded, i, output_lines, output_text, clauses, cnf_attempts,
                   cnf_calls>>

\* atom = rnd_propositional_atom(N), in the first loop, or through rnd_atom(0, ...)
RndPropositionalAtom ==
    /\ \/ InClause("prop_atom")
       \/ InClause("atom") /\ Top.d = 0
    /\ \E n \in 1 .. cfg.variables :
         stack' = SetTop([Top EXCEPT !.atom = rnd_propositional_atom(n), !.pc = "sign"])
    /\ Consume(TRUE, "atom")
    /\ UNCHANGED <<tool_vars, cfg, pc, err, seeded, i, output_lines, output_text,
                   clauses, cnf_attempts, cnf_calls>>

\* fault variant of inner_depth: the depth is not decremented
inner_depth_same(d) == d

\* the depth rnd_atom(d, ...) passes to rnd_clause
inner_depth(d) == d - 1

\* rnd_atom(d, ...) with d > 0: box = rnd_box(m), then the call rnd_clause(d - 1, ...)
RndBox ==
    /\ InClause("atom")
    /\ Top.d # 0
    /\ \E n \in 1 .. cfg.boxes :
         stack' = Append(SetTop([Top EXCEPT !.atom = rnd_box(n), !.pc = "inner"]),
                         new_frame(inner_depth(Top.d)))
    /\ Consume(TRUE, "box")
    /\ UNCHANGED <<tool_vars, cfg, pc, err, seeded, i, output_lines, output_text,
                   clauses, cnf_attempts, cnf_calls>>

\* sign = rnd_sign(); literal = ...; clause.append(literal)
RndSign ==
    /\ InClause("sign")
    /\ \E u \in Draws :
         LET literal == make_literal(Top.atom, rnd_sign(u))
         IN  stack' = SetTop([Top EXCEPT !.clause = Append(Top.clause, literal),
                                         !.atom = <<>>,
                                         !.j = Top.j + 1,
                                         !.pc = loop_pc(Top.P, Top.K, Top.j + 1)])
    /\ Consume(TRUE, "sign")
    /\ UNCHANGED <<tool_vars, cfg, pc, err, seeded, i, output_lines, output_text,
                   clauses, cnf_attempts, cnf_calls>>

\* fault variant of retry: attempts is not incremented
retry_uncounted(f) == [f EXCEPT !.pc = "length"]

\* fault variant of retry: the loop ends after the first failed attempt
retry_once(f) == [f EXCEPT !.attempts = f.attempts + 1, !.pc = "return_last"]

\* fault variant of retry: "while attempts <= max_attempts"
retry_one_more(f) ==
    [f EXCEPT !.attempts = f.attempts + 1,
              !.pc = IF f.attempts + 1 <= max_attempts THEN "length" ELSE "return_last"]

\* after a failed check: "attempts += 1", then "while attempts < max_attempts" runs
\* the next attempt or falls through to the return of the last clause
retry(f) ==
    [f EXCEPT !.attempts = f.attempts + 1,
              !.pc = IF f.attempts + 1 < max_attempts THEN "length" ELSE "return_last"]

\* "if no_repeated_atoms_in(clause): return ..." else "attempts += 1" and the while test
CheckClause ==
    /\ InClause("check")
    /\ stack' = SetTop(
         IF no_repeated_atoms_in(Top.clause)
         THEN [Top EXCEPT !.pc = "return_ok"]
         ELSE retry(Top))
    /\ Consume(FALSE, "none")
    /\ UNCHANGED <<tool_vars, cfg, pc, err, seeded, i, output_lines, output_text,
                   clauses, cnf_attempts, cnf_calls>>

\* fault variant of is_new: no clause counts as new
is_new_never(clause, existing_clauses) == FALSE

\* fault variant of is_new: every clause counts as new
is_new_always(clause, existing_clauses) == TRUE

\* clause not in existing_clauses
is_new(clause, existing_clauses) ==
    \A k \in 1 .. Len(existing_clauses) : existing_clauses[k] # clause

\* "return ' ∨ '.join(sorted(clause))": into rnd_atom's f"{box}({clause})" of the
\* calling rnd_clause, or into rnd_CNF's "if is_new(...): append; attempts += 1"
ReturnClause ==
    /\ \/ InClause("return_ok")
       \/ InClause("return_last")
    /\ LET text == clause_text(Top.clause)
           rest == SubSeq(stack, 1, Len(stack) - 1)
       IN  IF rest # <<>>
           THEN LET caller == rest[Len(rest)]
                IN  /\ stack' = [rest EXCEPT ![Len(rest)] =
                                   [caller EXCEPT !.atom = caller.atom \o ch_lparen
                                                           \o text \o ch_rparen,
                                                  !.degraded_inner =
                                                      \/ caller.degraded_inner
                                                      \/ Top.degraded_inner
                                                      \/ Top.pc = "return_last",
                                                  !.pc = "sign"]]
                    /\ UNCHANGED <<clauses, cnf_attempts>>
           ELSE /\ stack' = <<>>
                /\ clauses' = IF is_new(text, clauses)
                              THEN Append(clauses, text) ELSE clauses
                /\ cnf_attempts' = cnf_attempts + 1
    /\ Consume(FALSE, "none")
    /\ UNCHANGED <<tool_vars, cfg, pc, err, seeded, i, output_lines, output_text, cnf_calls>>

---------------------------------------------------------------------------
(* Formula assembler and driver *)

RECURSIVE format_lines_all_and(_, _)
\* fault variant of format_lines: the last line ends with the conjunction sign too
format_lines_all_and(cl, k) ==
    IF k > Len(cl) THEN <<>>
    ELSE <<ch_space \o ch_space \o ch_lparen \o cl[k] \o ch_rparen \o ch_space \o ch_and>>
         \o format_lines_all_and(cl, k + 1)

RECURSIVE format_lines(_, _)
\* "for i, clause in enumerate(clauses)": the lines from the k-th clause on
format_lines(cl, k) ==
    IF k > Len(cl) THEN <<>>
    ELSE <<ch_space \o ch_space \o ch_lparen \o cl[k] \o ch_rparen
           \o (IF k - 1 < Len(cl) - 1 THEN ch_space \o ch_and ELSE ch_dot)>>
         \o format_lines(cl, k + 1)

format_formula(cl) ==
    IF cl = <<>> THEN <<>> ELSE join(ch_newline, format_lines(cl, 1))

\* f"=== Formula {n} ==="
formula_marker(n) ==
    <<61, 61, 61, 32, 70, 111, 114, 109, 117, 108, 97, 32>> \o str(n)
    \o <<32, 61, 61, 61>>

\* fault variant of cnf_continue: "while len(clauses) <= L and ..."
cnf_continue_one_more(cl, attempts, L) ==
    Len(cl) <= L /\ attempts < L * cnf_budget_factor

\* "while len(clauses) < L and attempts < max_attempts", max_attempts being L * 10
cnf_continue(cl, attempts, L) ==
    Len(cl) < L /\ attempts < L * cnf_budget_factor

\* the while test of rnd_CNF: call rnd_clause once more, or return clauses to main,
\* which formats and appends them
RndCNF ==
    /\ pc = "cnf"
    /\ stack = <<>>
    /\ IF cnf_continue(clauses, cnf_attempts, cfg.clauses)
       THEN /\ stack' = <<new_frame(cfg.depth)>>
            /\ cnf_calls' = cnf_calls + 1
            /\ UNCHANGED <<pc, i, output_lines>>
       ELSE /\ output_lines' = output_lines \o <<format_formula(clauses)>>
                               \o (IF i < cfg.count - 1 THEN << <<>> >> ELSE <<>>)
            /\ i' = i + 1
            /\ pc' = "loop"
            /\ UNCHANGED <<stack, cnf_calls>>
    /\ Consume(FALSE, "none")
    /\ UNCHANGED <<tool_vars, cfg, err, seeded, output_text, clauses, cnf_attempts>>

\* fault variant of MainLoop: rnd_CNF goes on with the clause list of the formula before
MainLoopKeepsClauses ==
    /\ pc = "loop"
    /\ IF i < cfg.count
       THEN /\ output_lines' = IF cfg.count > 1
                               THEN Append(output_lines, formula_marker(i + 1))
                               ELSE output_lines
            /\ cnf_attempts' = 0
            /\ cnf_calls' = 0
            /\ pc' = "cnf"
            /\ UNCHANGED <<output_text, clauses>>
       ELSE /\ output_text' = join(ch_newline, output_lines)
            /\ pc' = "done"
            /\ UNCHANGED <<output_lines, clauses, cnf_attempts, cnf_calls>>
    /\ Consume(FALSE, "none")
    /\ UNCHANGED <<tool_vars, cfg, err, seeded, i, stack>>

\* "for i in range(args.count)": the marker and the call of rnd_CNF, or the join
MainLoop ==
    /\ pc = "loop"
    /\ IF i < cfg.count
       THEN /\ output_lines' = IF cfg.count > 1
                               THEN Append(output_lines, formula_marker(i + 1))
                               ELSE output_lines
            /\ clauses' = <<>>
            /\ cnf_attempts' = 0
            /\ cnf_calls' = 0
            /\ pc' = "cnf"
            /\ UNCHANGED output_text
       ELSE /\ output_text' = join(ch_newline, output_lines)
            /\ pc' = "done"
            /\ UNCHANGED <<output_lines, clauses, cnf_attempts, cnf_calls>>
    /\ Consume(FALSE, "none")
    /\ UNCHANGED <<tool_vars, cfg, err, seeded, i, stack>>

\* fault variant of validate: the number of boxes is not checked
validate_without_boxes(a) ==
    IF a.depth < 0 THEN "depth"
    ELSE IF a.clauses < 1 THEN "clauses"
    ELSE IF a.variables < 1 THEN "variables"
    ELSE "none"

\* the parameter the validation of main rejects, "none" when it accepts them all
validate(a) ==
    IF a.depth < 0 THEN "depth"
    ELSE IF a.clauses < 1 THEN "clauses"
    ELSE IF a.variables < 1 THEN "variables"
    ELSE IF a.boxes < 1 THEN "boxes"
    ELSE "none"

\* main up to the generation loop: seed, (parse,) validate
MainStartup ==
    /\ pc = "start"
    /\ seeded' = IF cfg.seed # "None" THEN seeded + 1 ELSE seeded
    /\ err' = validate(cfg)
    /\ pc' = IF validate(cfg) # "none" THEN "error" ELSE "loop"
    /\ Consume(FALSE, "none")
    /\ UNCHANGED <<tool_vars, cfg, i, output_lines, output_text, clauses, cnf_attempts, stack,
                   cnf_calls>>

---------------------------------------------------------------------------
(* Configurations *)

Config(d, L, N, m, C, p, count, seed) ==
    [depth |-> d, clauses |-> L, variables |-> N, boxes |-> m, C |-> C, p |-> p,
     count |-> count, seed |-> seed]

\* weight vectors of the clause-length table: always 1; 1 (on a zero draw) or 2;
\* all weights zero (length 2, no draw)
vec_one == <<1>>
vec_two == <<0, 1>>
vec_zero == <<0, 0>>

\* a clause-length table of n levels, wide at level w (depth w - 1), vec_one elsewhere
table_C(n, w, wide) == [lvl \in 1 .. n |-> IF lvl = w THEN wide ELSE vec_one]

\* literal-mix tables: no level at all (P = 0); P = K unless the draw is zero, at
\* every level; P = 2 for K = 1 at depth 0 (more propositional literals than K)
p_none == <<>>
p_all(n) == [lvl \in 1 .. n |-> << <<0, 1>>, <<0, 0, 1>>, <<0, 0, 0, 1>> >>]
p_over == << << <<0, 0, 1>> >> >>
\* a vector of two zero weights for K = 1 at depth 0
p_zero == << << <<0, 0>> >> >>
\* one propositional literal per clause unless the draw is zero, at every level
p_mix(n) == [lvl \in 1 .. n |-> << <<0, 1>>, <<0, 1, 0>>, <<0, 1, 0, 0>> >>]

Seeds == {"None", "int"}

\* every combination of a valid and an invalid value of the four validated parameters
ValidationConfigs ==
    { Config(d, L, N, m, <<vec_one>>, p_none, 1, s) :
        d \in {-1, 0}, L \in {0, 1}, N \in {0, 1}, m \in {0, 1}, s \in Seeds }

\* one clause at depth 0 over 1 .. MaxN variables: no clause-length table (length 3),
\* lengths 1 and 2 with each literal-mix table, length 2 without a draw, and length
\* 1 with a literal-mix vector of three weights and with one of zero weights only
ClauseConfigs ==
    { Config(0, 1, N, 1, t[1], t[2], 1, "int") :
        N \in 1 .. MaxN,
        t \in { <<<<>>, p_none>>, <<<<vec_two>>, p_none>>, <<<<vec_two>>, p_all(1)>>,
                <<<<vec_two>>, p_over>>, <<<<vec_zero>>, p_all(1)>>,
                <<<<vec_one>>, p_over>>, <<<<vec_one>>, p_zero>> } }

\* one variable, clauses of one literal (two distinct texts only): 1 .. MaxL clauses
\* in 1 .. MaxCount formulas
CNFConfigs ==
    { Config(0, L, 1, 1, <<vec_one>>, p_none, count, s) :
        L \in 1 .. MaxL, count \in 1 .. MaxCount, s \in Seeds }

\* one variable, two clauses of two literals: every clause has a repeated atom
DegradedCNFConfigs ==
    { Config(0, 2, 1, 1, <<vec_zero>>, p_none, 1, "int") }

\* depth 1 .. MaxDepth, one variable, a clause-length table of depth + 1 levels:
\* wide at no level with 1 .. MaxM boxes, and wide at one level w with one box,
\* without and with a literal-mix table of depth + 1 levels
DepthConfigs ==
    UNION { { Config(d, 1, 1, m, table_C(d + 1, 0, vec_two), p_none, 1, "int") :
                m \in 1 .. MaxM }
            \cup { Config(d, 1, 1, 1, table_C(d + 1, w, vec_two), p, 1, "int") :
                     w \in 1 .. (d + 1), p \in {p_none, p_mix(d + 1)} } :
            d \in 1 .. MaxDepth }

\* depth 1 with a clause-length table of one level only, one fewer than depth + 1,
\* and no literal-mix level
ShortTableConfigs ==
    { Config(1, 1, 1, 1, table_C(1, 0, vec_two), p_none, 1, "int") }

\* an empty weight vector: clause length 0, and depth_dist[-1] of an empty list
EmptyVectorConfigs ==
    { Config(0, 1, 1, 1, << <<>> >>, p, 1, "int") : p \in {p_none, << <<>> >>} }

Configs ==
    ValidationConfigs \cup ClauseConfigs \cup CNFConfigs \cup DegradedCNFConfigs
    \cup DepthConfigs \cup ShortTableConfigs \cup EmptyVectorConfigs

\* the arguments of pipeline.py when none is given but -o
default_args ==
    [depth |-> 2, clauses |-> 4, variables |-> 4, boxes |-> 1,
     C |-> <<<<0, 2, 2>>, <<2, 4>>, <<6>>>>,
     p |-> <<<<<<0>>, <<0, 2, 0>>, <<0, 2, 0, 0>>>>, <<<<2, 0>>, <<0, 4, 0>>>>, <<>>>>,
     count |-> 1, seed |-> "None", generator |-> "generator.py"]

\* pipeline.py before main has run anything
PipelineInit(A) ==
    /\ args \in A
    /\ pipeline_pc = "generator"
    /\ cmd_index = 1
    /\ child = <<>>
    /\ log = <<>>
    /\ generated_file \in { [exists |-> e, written_by |-> 0] : e \in BOOLEAN }
    /\ converted_file \in BOOLEAN
    /\ exit_status = -1
    /\ reported = -1

\* pipeline.py is not run
PipelineIdle ==
    /\ PipelineInit({default_args})
    /\ ~generated_file.exists
    /\ ~converted_file

\* wrapper.py is not run
WrapperIdle ==
    /\ formula = <<>>
    /\ lcks5 = <<>>

\* generator.py before main has run anything
GeneratorInit(S) ==
    /\ cfg \in S
    /\ pc = "start"
    /\ err = "none"
    /\ seeded = 0
    /\ drawn = FALSE
    /\ last_draw = "none"
    /\ i = 0
    /\ output_lines = <<>>
    /\ output_text = <<>>
    /\ clauses = <<>>
    /\ cnf_attempts = 0
    /\ stack = <<>>
    /\ cnf_calls = 0

\* converter.py is not run
ConverterIdle == converted = <<>>

\* generator.py alone
InitFor(S) == GeneratorInit(S) /\ PipelineIdle /\ WrapperIdle /\ ConverterIdle

Init == InitFor(Configs)

Next ==
    \/ MainStartup
    \/ MainLoop
    \/ RndCNF
    \/ RndLength
    \/ RndPropnum
    \/ RndPropositionalAtom
    \/ RndBox
    \/ RndSign
    \/ CheckClause
    \/ ReturnClause

Spec == Init /\ [][Next]_vars

---------------------------------------------------------------------------
(* The pipeline of FormulaGenerator/pipeline.py: generator, converter, wrapper *)

generator_vars == <<cfg, pc, err, seeded, drawn, last_draw, i, output_lines,
                    output_text, clauses, cnf_attempts, stack, cnf_calls>>

wrapper_vars == <<formula, lcks5>>

converter_vars == <<converted>>

\* the "generator_cmd = [...]" lists main hands to run_command, in order, as the
\* arguments generator.py parses from them; "--seed" is added when args.seed is set
generator_cmds(seed) ==
    << Config(1, 4, 4, 1,
              <<<<1, 0>>, <<1, 0>>>>,
              <<<<<<1, 1>>>>, <<<<0, 1>>>>>>,
              5, seed),
       Config(1, 4, 4, 1,
              <<<<0, 1>>, <<0, 1>>>>,
              <<<<<<1, 1>>, <<1, 2, 1>>>>, <<<<1, 1>>, <<1, 2, 1>>>>>>,
              5, seed),
       Config(1, 4, 4, 1,
              <<<<0, 1, 1>>, <<0, 1, 1>>>>,
              <<<<<<1, 1>>, <<1, 2, 1>>, <<1, 3, 3, 1>>>>, <<<<1, 1>>, <<1, 2, 1>>, <<1, 3, 3, 1>>>>>>,
              5, seed),
       Config(1, 4, 4, 1,
              <<<<1, 0, 1>>, <<1, 0, 1>>>>,
              <<<<<<1, 1>>, <<1, 2, 1>>, <<1, 3, 3, 1>>>>, <<<<1, 1>>, <<1, 2, 1>>, <<1, 3, 3, 1>>>>>>,
              5, seed),
       Config(1, 4, 4, 1,
              <<<<1, 1, 1>>, <<1, 1, 1>>>>,
              <<<<<<1, 1>>, <<1, 2, 1>>, <<1, 3, 3, 1>>>>, <<<<1, 1>>, <<1, 2, 1>>, <<1, 3, 3, 1>>>>>>,
              5, seed),
       Config(2, 4, 4, 1,
              <<<<0, 1>>, <<0, 1>>, <<0, 1>>>>,
              <<<<<<1, 1>>, <<1, 2, 1>>>>, <<<<1, 1>>, <<1, 2, 1>>>>, <<<<1, 1>>, <<1, 2, 1>>>>>>,
              5, seed),
       Config(2, 4, 4, 1,
              <<<<0, 0, 1>>, <<0, 0, 1>>, <<0, 0, 1>>>>,
              <<<<<<1, 1>>, <<1, 2, 1>>, <<1, 3, 3, 1>>>>, <<<<1, 1>>, <<1, 2, 1>>, <<1, 3, 3, 1>>>>, <<<<1, 1>>, <<1, 2, 1>>, <<1, 3, 3, 1>>>>>>,
              5, seed),
       Config(2, 4, 4, 1,
              <<<<0, 1, 1>>, <<0, 1, 1>>, <<0, 1, 1>>>>,
              <<<<<<1, 1>>, <<1, 2, 1>>, <<1, 3, 3, 1>>>>, <<<<1, 1>>, <<1, 2, 1>>, <<1, 3, 3, 1>>>>, <<<<1, 1>>, <<1, 2, 1>>, <<1, 3, 3, 1>>>>>>,
              5, seed),
       Config(2, 4, 4, 1,
              <<<<1, 0, 1>>, <<1, 0, 1>>, <<1, 0, 1>>>>,
              <<<<<<1, 1>>, <<1, 2, 1>>, <<1, 3, 3, 1>>>>, <<<<1, 1>>, <<1, 2, 1>>, <<1, 3, 3, 1>>>>, <<<<1, 1>>, <<1, 2, 1>>, <<1, 3, 3, 1>>>>>>,
              5, seed),
       Config(2, 4, 4, 1,
              <<<<1, 1, 1>>, <<1, 1, 1>>, <<1, 1, 1>>>>,
              <<<<<<1, 1>>, <<1, 2, 1>>, <<1, 3, 3, 1>>>>, <<<<1, 1>>, <<1, 2, 1>>, <<1, 3, 3, 1>>>>, <<<<1, 1>>, <<1, 2, 1>>, <<1, 3, 3, 1>>>>>>,
              5, seed),
       Config(3, 4, 4, 1,
              <<<<0, 1>>, <<0, 1>>, <<0, 1>>, <<0, 1>>>>,
              <<<<<<1, 1>>, <<1, 2, 1>>>>, <<<<1, 1>>, <<1, 2, 1>>>>, <<<<1, 1>>, <<1, 2, 1>>>>, <<<<1, 1>>, <<1, 2, 1>>>>>>,
              5, seed),
       Config(3, 4, 4, 1,
              <<<<0, 0, 1>>, <<0, 0, 1>>, <<0, 0, 1>>, <<0, 0, 1>>>>,
              <<<<<<1, 1>>, <<1, 2, 1>>, <<1, 3, 3, 1>>>>, <<<<1, 1>>, <<1, 2, 1>>, <<1, 3, 3, 1>>>>, <<<<1, 1>>, <<1, 2, 1>>, <<1, 3, 3, 1>>>>, <<<<1, 1>>, <<1, 2, 1>>, <<1, 3, 3, 1>>>>>>,
              5, seed),
       Config(3, 4, 4, 1,
              <<<<0, 0, 1>>, <<0, 0, 1>>, <<0, 0, 1>>, <<0, 0, 1>>>>,
              <<<<<<1, 1>>, <<1, 2, 1>>, <<1, 3, 3, 1>>>>, <<<<1, 1>>, <<1, 2, 1>>, <<1, 3, 3, 1>>>>, <<<<1, 1>>, <<1, 2, 1>>, <<1, 3, 3, 1>>>>, <<<<1, 1>>, <<1, 2, 1>>, <<1, 3, 3, 1>>>>>>,
              5, seed),
       Config(3, 4, 4, 1,
              <<<<0, 1, 1>>, <<0, 1, 1>>, <<0, 1, 1>>, <<0, 1, 1>>>>,
              <<<<<<1, 1>>, <<1, 2, 1>>, <<1, 3, 3, 1>>>>, <<<<1, 1>>, <<1, 2, 1>>, <<1, 3, 3, 1>>>>, <<<<1, 1>>, <<1, 2, 1>>, <<1, 3, 3, 1>>>>, <<<<1, 1>>, <<1, 2, 1>>, <<1, 3, 3, 1>>>>>>,
              5, seed),
       Config(3, 4, 4, 1,
              <<<<1, 0, 1>>, <<1, 0, 1>>, <<1, 0, 1>>, <<1, 0, 1>>>>,
              <<<<<<1, 1>>, <<1, 2, 1>>, <<1, 3, 3, 1>>>>, <<<<1, 1>>, <<1, 2, 1>>, <<1, 3, 3, 1>>>>, <<<<1, 1>>, <<1, 2, 1>>, <<1, 3, 3, 1>>>>, <<<<1, 1>>, <<1, 2, 1>>, <<1, 3, 3, 1>>>>>>,
              5, seed),
       Config(3, 4, 4, 1,
              <<<<1, 1, 1>>, <<1, 1, 1>>, <<1, 1, 1>>, <<1, 1, 1>>>>,
              <<<<<<1, 1>>, <<1, 2, 1>>, <<1, 3, 3, 1>>>>, <<<<1, 1>>, <<1, 2, 1>>, <<1, 3, 3, 1>>>>, <<<<1, 1>>, <<1, 2, 1>>, <<1, 3, 3, 1>>>>, <<<<1, 1>>, <<1, 2, 1>>, <<1, 3, 3, 1>>>>>>,
              5, seed),
       Config(2, 4, 4, 1,
              <<<<0, 1, 1>>, <<1, 2>>, <<1>>>>,
              <<<<<<>>, <<0, 2, 0>>, <<0, 2, 0, 0>>>>, <<<<2, 0>>, <<0, 4, 0>>>>, <<>>>>,
              15, seed),
       Config(3, 4, 3, 1,
              <<<<1, 8, 1>>, <<>>, <<>>, <<>>>>,
              <<<<<<1, 0>>, <<0, 1, 0>>, <<0, 1, 1, 0>>>>, <<>>, <<>>, <<>>>>,
              15, seed),
       Config(3, 4, 4, 1,
              <<<<1, 8, 1>>, <<>>, <<>>, <<>>>>,
              <<<<<<1, 0>>, <<0, 1, 0>>, <<0, 1, 1, 0>>>>, <<>>, <<>>, <<>>>>,
              15, seed),
       Config(4, 4, 3, 1,
              <<<<1, 8, 1>>, <<>>, <<>>, <<>>, <<>>>>,
              <<<<<<1, 0>>, <<0, 1, 0>>, <<0, 1, 1, 0>>>>, <<>>, <<>>, <<>>, <<>>>>,
              15, seed),
       Config(4, 4, 4, 1,
              <<<<1, 8, 1>>, <<>>, <<>>, <<>>, <<>>>>,
              <<<<<<1, 0>>, <<0, 1, 0>>, <<0, 1, 1, 0>>>>, <<>>, <<>>, <<>>, <<>>>>,
              15, seed),
       Config(4, 4, 3, 1,
              <<<<1, 8, 1>>, <<1, 2>>, <<>>, <<>>, <<>>>>,
              <<<<<<1, 0>>, <<0, 1, 0>>, <<0, 1, 1, 0>>>>, <<<<1, 0>>, <<0, 1, 0>>>>, <<>>, <<>>, <<>>>>,
              15, seed),
       Config(4, 4, 4, 1,
              <<<<1, 8, 1>>, <<1, 2>>, <<>>, <<>>, <<>>>>,
              <<<<<<1, 0>>, <<0, 1, 0>>, <<0, 1, 1, 0>>>>, <<<<1, 0>>, <<0, 1, 0>>>>, <<>>, <<>>, <<>>>>,
              15, seed),
       Config(4, 4, 5, 1,
              <<<<1, 8, 1>>, <<1, 2>>, <<>>, <<>>, <<>>>>,
              <<<<<<1, 0>>, <<0, 1, 0>>, <<0, 1, 1, 0>>>>, <<<<1, 0>>, <<0, 1, 0>>>>, <<>>, <<>>, <<>>>>,
              15, seed),
       Config(5, 4, 3, 1,
              <<<<1, 8, 1>>, <<1, 2>>, <<>>, <<>>, <<>>, <<>>>>,
              <<<<<<1, 0>>, <<0, 1, 0>>, <<0, 1, 1, 0>>>>, <<<<1, 0>>, <<0, 1, 0>>>>, <<>>, <<>>, <<>>, <<>>>>,
              15, seed),
       Config(5, 4, 4, 1,
              <<<<1, 8, 1>>, <<1, 2>>, <<>>, <<>>, <<>>, <<>>>>,
              <<<<<<1, 0>>, <<0, 1, 0>>, <<0, 1, 1, 0>>>>, <<<<1, 0>>, <<0, 1, 0>>>>, <<>>, <<>>, <<>>, <<>>>>,
              15, seed),
       Config(5, 4, 5, 1,
              <<<<1, 8, 1>>, <<1, 2>>, <<>>, <<>>, <<>>, <<>>>>,
              <<<<<<1, 0>>, <<0, 1, 0>>, <<0, 1, 1, 0>>>>, <<<<1, 0>>, <<0, 1, 0>>>>, <<>>, <<>>, <<>>, <<>>>>,
              15, seed) >>

\* the generator arguments pipeline.py's own command line gives
args_cmd(a) ==
    Config(a.depth, a.clauses, a.variables, a.boxes, a.C, a.p, a.count, a.seed)

\* generator.py run with these arguments passes its validation and raises IndexError
\* in the first attempt of its first clause, whatever the random source returns
raises_at_once(c) ==
    /\ validate(c) = "none"
    /\ \A u \in Draws : propnum_raises(c.depth, c.p, rnd_length(c.depth, c.C, u))

\* the command main builds where it stands
next_cmd ==
    CASE pipeline_pc = "generator" ->
           [script |-> "generator", cmd |-> generator_cmds(args.seed)[cmd_index]]
      [] pipeline_pc = "converter" ->
           [script |-> "converter", cmd |-> [i |-> "generated_file", o |-> "converted_file"]]
      [] pipeline_pc = "wrapper" ->
           [script |-> "wrapper", cmd |-> [i |-> "converted_file", o |-> "converted_file"]]

\* where main goes on when the command of this step has exited with status 0
after_command(at, index) ==
    CASE at = "generator" ->
           IF index < Len(generator_cmds("None")) THEN "generator" ELSE "verify_generated"
      [] at = "converter" -> "verify_converted"
      [] at = "wrapper" -> "summary"

\* fault variant of run_command_failed: the failure is reported and main goes on
run_command_failed_goes_on(at, index) ==
    [pc |-> after_command(at, index), status |-> -1]

\* run_command's two except clauses: sys.exit(1)
run_command_failed(at, index) ==
    [pc |-> "exit", status |-> 1]

\* run_command up to subprocess.run: the command is started
RunCommand ==
    /\ pipeline_pc \in {"generator", "converter", "wrapper"}
    /\ child = <<>>
    /\ child' = <<next_cmd>>
    /\ log' = Append(log, [script |-> next_cmd.script, cmd |-> next_cmd.cmd,
                           result |-> "running"])
    /\ UNCHANGED <<generator_vars, converter_vars, wrapper_vars, args, pipeline_pc, cmd_index,
                   generated_file, converted_file, exit_status, reported>>

\* subprocess.run returns or raises: the command exited with status 0 (the script
\* behind --generator need not be this repository's generator.py, which writes its
\* output file before it exits with 0), or with another status, or could not be run
CommandExits ==
    /\ child # <<>>
    /\ \E result \in {"ok", "CalledProcessError", "FileNotFoundError"}, wrote \in BOOLEAN :
         LET script == child[1].script
             ours == script = "generator" /\ args.generator = "generator.py"
         IN  /\ (ours /\ result = "ok") => (wrote /\ ~raises_at_once(child[1].cmd))
             /\ log' = [log EXCEPT ![Len(log)].result = result]
             /\ child' = <<>>
             /\ IF result = "ok"
                THEN /\ pipeline_pc' = after_command(script, cmd_index)
                     /\ cmd_index' = IF script = "generator" THEN cmd_index + 1
                                     ELSE cmd_index
                     /\ generated_file' =
                            IF script = "generator" /\ wrote
                            THEN [exists |-> TRUE, written_by |-> cmd_index]
                            ELSE generated_file
                     /\ converted_file' =
                            IF script = "converter" THEN converted_file \/ wrote
                            ELSE converted_file
                     /\ UNCHANGED exit_status
                ELSE /\ ~wrote
                     /\ pipeline_pc' = run_command_failed(script, cmd_index).pc
                     /\ exit_status' = run_command_failed(script, cmd_index).status
                     /\ UNCHANGED <<cmd_index, generated_file, converted_file>>
    /\ UNCHANGED <<generator_vars, converter_vars, wrapper_vars, args, reported>>

\* "if not os.path.exists(generated_file): ... sys.exit(1)"
VerifyGenerated ==
    /\ pipeline_pc = "verify_generated"
    /\ pipeline_pc' = IF generated_file.exists THEN "converter" ELSE "exit"
    /\ exit_status' = IF generated_file.exists THEN exit_status ELSE 1
    /\ UNCHANGED <<generator_vars, converter_vars, wrapper_vars, args, cmd_index, child, log,
                   generated_file, converted_file, reported>>

\* "if not os.path.exists(converted_file): ... sys.exit(1)"
VerifyConverted ==
    /\ pipeline_pc = "verify_converted"
    /\ pipeline_pc' = IF converted_file THEN "wrapper" ELSE "exit"
    /\ exit_status' = IF converted_file THEN exit_status ELSE 1
    /\ UNCHANGED <<generator_vars, converter_vars, wrapper_vars, args, cmd_index, child, log,
                   generated_file, converted_file, reported>>

\* "PIPELINE COMPLETE", "Generated {args.count} formula(s)", and main returns
Summary ==
    /\ pipeline_pc = "summary"
    /\ reported' = args.count
    /\ pipeline_pc' = "complete"
    /\ exit_status' = 0
    /\ UNCHANGED <<generator_vars, converter_vars, wrapper_vars, args, cmd_index, child, log,
                   generated_file, converted_file>>

\* command lines of pipeline.py: the defaults with 1 .. MaxCount formulas, and the
\* arguments of its first and of its last generator command; each with and without
\* a seed, and with this repository's generator.py or another script behind --generator
PipelineArgs ==
    { [a EXCEPT !.seed = s, !.generator = g] :
        s \in Seeds, g \in {"generator.py", "other"},
        a \in { [default_args EXCEPT !.count = n] : n \in 1 .. MaxCount }
              \cup { [depth |-> c.depth, clauses |-> c.clauses, variables |-> c.variables,
                      boxes |-> c.boxes, C |-> c.C, p |-> c.p, count |-> c.count,
                      seed |-> "None", generator |-> "generator.py"] :
                      c \in { generator_cmds("None")[1],
                              generator_cmds("None")[Len(generator_cmds("None"))] } } }

PipelineNext ==
    \/ RunCommand
    \/ CommandExits
    \/ VerifyGenerated
    \/ VerifyConverted
    \/ Summary

\* generator.py is not run (its runs as a child are the results of CommandExits)
GeneratorIdle == GeneratorInit({Config(0, 1, 1, 1, <<vec_one>>, p_none, 1, "None")})

\* pipeline.py alone
PipelineAlone ==
    GeneratorIdle /\ PipelineInit(PipelineArgs) /\ WrapperIdle /\ ConverterIdle

PipelineSpec == PipelineAlone /\ [][PipelineNext]_vars

---------------------------------------------------------------------------
(* format_formula of FormulaGenerator/generator.py by itself *)

\* clause texts as rnd_clause returns them: "", "A1", "A2 ∨ ¬A1", "□1(A1)"
FormatClauses ==
    { <<>>,
      clause_text(<<rnd_propositional_atom(1)>>),
      clause_text(<<make_literal(rnd_propositional_atom(1), TRUE),
                    rnd_propositional_atom(2)>>),
      clause_text(<<rnd_box(1) \o ch_lparen \o rnd_propositional_atom(1) \o ch_rparen>>) }

\* every list of at most MaxL of these clause texts
ClauseLists == UNION { [1 .. n -> FormatClauses] : n \in 0 .. MaxL }

\* a caller about to format one clause list
FormatAlone ==
    /\ cfg = Config(1, MaxL, 2, 1, <<vec_two, vec_one>>, p_none, 1, "None")
    /\ pc = "format"
    /\ err = "none"
    /\ seeded = 0
    /\ drawn = FALSE
    /\ last_draw = "none"
    /\ i = 0
    /\ output_lines = <<>>
    /\ output_text = <<>>
    /\ clauses \in ClauseLists
    /\ cnf_attempts = 0
    /\ stack = <<>>
    /\ cnf_calls = 0
    /\ PipelineIdle
    /\ WrapperIdle
    /\ ConverterIdle

\* "formula = format_formula(clauses)"; "output_lines.append(formula)"
FormatFormula ==
    /\ pc = "format"
    /\ output_lines' = Append(output_lines, format_formula(clauses))
    /\ pc' = "formatted"
    /\ UNCHANGED <<tool_vars, cfg, err, seeded, drawn, last_draw, i, output_text, clauses,
                   cnf_attempts, stack, cnf_calls>>

FormatNext == FormatFormula

FormatSpec == FormatAlone /\ [][FormatNext]_vars

---------------------------------------------------------------------------
(* Properties *)

\* the run has ended: output joined, configuration error reported, or exception raised
Finished == pc \in {"done", "error", "raised"}

\* a clause (list of literals) has two literals with the same atom, the atom of a
\* literal being the literal without its leading negation sign
HasRepeatedAtom(clause) ==
    \E a, b \in 1 .. Len(clause) :
        /\ a < b
        /\ (IF clause[a][1] = 172 THEN Tail(clause[a]) ELSE clause[a])
           = (IF clause[b][1] = 172 THEN Tail(clause[b]) ELSE clause[b])

\* the frame is at one of the two return statements of rnd_clause
Returning(f) == f.pc \in {"return_ok", "return_last"}

C1_Budgets ==
    /\ cnf_calls <= 10 * cfg.clauses
    /\ Len(stack) <= cfg.depth + 1
    /\ \A k \in 1 .. Len(stack) :
         /\ stack[k].attempts <= 100
         /\ stack[k].attempts = 100 => stack[k].pc = "return_last"
         /\ stack[k].d = cfg.depth - (k - 1)
         /\ stack[k].d >= 0

\* the largest element of a finite non-empty set of integers
MaxOf(S) == CHOOSE x \in S : \A y \in S : y <= x

\* no attempt under configuration c has more literals than this: K is 3 or at most
\* the length of a vector of C, P is less than the length of a vector of p
LitBound ==
    [c \in Configs |->
        MaxOf({3} \cup { Len(c.C[l]) : l \in 1 .. Len(c.C) }
              \cup UNION { { Len(c.p[l][k]) : k \in 1 .. Len(c.p[l]) } : l \in 1 .. Len(c.p) })]

\* how far a rnd_clause call is from its return: attempts left, phase of the attempt
\* under way, literals left in it, steps left for the literal under way
FrameRank(f) ==
    LET phase == CASE f.pc = "length" -> 4
                   [] f.pc = "propnum" -> 3
                   [] f.pc \in {"prop_atom", "atom", "inner", "sign"} -> 2
                   [] f.pc = "check" -> 1
                   [] OTHER -> 0
        step == CASE f.pc \in {"prop_atom", "atom"} -> 2
                  [] f.pc = "inner" -> 1
                  [] OTHER -> 0
    IN  <<100 - f.attempts, phase, IF phase = 2 THEN LitBound[cfg] - f.j ELSE 0, step>>

RECURSIVE StackRank(_)
\* FrameRank of the calls from the k-th on, padded with zeros to depth + 1 calls
StackRank(k) ==
    IF k > cfg.depth + 1 THEN <<>>
    ELSE (IF k <= Len(stack) THEN FrameRank(stack[k]) ELSE <<0, 0, 0, 0>>)
         \o StackRank(k + 1)

\* how far the run is from its end: formulas left, position of main, rnd_clause
\* calls left to rnd_CNF, whether a call is active, and the rank of the active calls
Rank ==
    <<IF Finished THEN 0 ELSE IF pc = "start" THEN cfg.count + 1 ELSE cfg.count - i,
      IF pc = "loop" THEN 1 ELSE 0,
      IF pc = "cnf" THEN 10 * cfg.clauses - cnf_calls ELSE 0,
      IF pc = "cnf" /\ stack # <<>> THEN 1 ELSE 0>>
    \o (IF pc = "cnf" THEN StackRank(1) ELSE [k \in 1 .. 4 * (cfg.depth + 1) |-> 0])

RECURSIVE LexLess(_, _)
\* a comes before b in the lexicographic order of integer tuples of one length
LexLess(a, b) ==
    /\ a # <<>>
    /\ \/ Head(a) < Head(b)
       \/ Head(a) = Head(b) /\ LexLess(Tail(a), Tail(b))

\* some step of the generator can be taken: the guard of one of its actions holds
\* and the set its draw is taken from is not empty
CanStep ==
    \/ pc \in {"start", "loop"}
    \/ pc = "cnf" /\ stack = <<>>
    \/ \E at \in {"length", "propnum", "sign", "check", "return_ok", "return_last"} :
         InClause(at)
    \/ (InClause("prop_atom") \/ (InClause("atom") /\ Top.d = 0)) /\ cfg.variables >= 1
    \/ InClause("atom") /\ Top.d # 0 /\ cfg.boxes >= 1

\* C1: rnd_CNF makes at most 10*L rnd_clause calls, every rnd_clause call makes at
\* most 100 attempts (the attempt under way is at most the 100th), every modal
\* literal recurses at the depth of its clause minus one, and no run loops forever:
\* every step strictly decreases Rank, a tuple of natural numbers of fixed length
\* under the lexicographic order, and only a finished run has no step to take.
C1_Terminates ==
    /\ [](C1_Budgets /\ \A k \in 1 .. Len(Rank) : Rank[k] >= 0)
    /\ [](Finished \/ CanStep)
    /\ [][LexLess(Rank', Rank)]_vars

\* a finished run whose formula used up the 10*L calls, every clause degraded
C1_Witness ==
    /\ pc = "done"
    /\ cfg.clauses >= 2
    /\ cnf_calls = 10 * cfg.clauses
    /\ Len(clauses) < cfg.clauses
    /\ cfg.C = <<vec_zero>>

\* C3: the clause list of rnd_CNF never holds two textually identical clauses, at
\* any moment and so at its return, whether or not the budget of 10*L calls was
\* used up and whether or not the clauses are degraded.
C3_DistinctClauses ==
    \A a, b \in 1 .. Len(clauses) : a < b => clauses[a] # clauses[b]

\* a finished formula of two clauses, each with a repeated atom, for which rnd_clause
\* was called more often than clauses were accepted
C3_Witness ==
    /\ pc = "done"
    /\ Len(clauses) = 2
    /\ cnf_calls > 2
    /\ cfg.C = <<vec_zero>>

\* rnd_CNF has returned its clause list to main
CNFReturned == pc \in {"loop", "done"} /\ i >= 1

\* C4: rnd_CNF returns at most L clauses; a call of rnd_clause is under way only
\* while fewer than L clauses are collected; and fewer than L clauses are returned
\* only after exactly 10*L calls of rnd_clause.
C4_ClauseCount ==
    /\ (pc = "cnf" /\ stack # <<>>) => Len(clauses) < cfg.clauses
    /\ pc = "cnf" => Len(clauses) <= cfg.clauses
    /\ CNFReturned =>
         /\ Len(clauses) <= cfg.clauses
         /\ Len(clauses) < cfg.clauses => cnf_calls = 10 * cfg.clauses
         /\ Len(clauses) = cfg.clauses => cnf_calls <= 10 * cfg.clauses

\* a formula returned two clauses short of L = 3 after 30 calls
C4_Witness ==
    /\ CNFReturned
    /\ cfg.clauses = 3
    /\ Len(clauses) = 2
    /\ cnf_calls = 30

RECURSIVE NestingFrom(_, _, _, _)
\* the deepest nesting of parentheses in text t from position k on
NestingFrom(t, k, cur, best) ==
    IF k > Len(t) THEN best
    ELSE IF t[k] = 40
         THEN NestingFrom(t, k + 1, cur + 1, IF cur + 1 > best THEN cur + 1 ELSE best)
    ELSE IF t[k] = 41 THEN NestingFrom(t, k + 1, cur - 1, best)
    ELSE NestingFrom(t, k + 1, cur, best)

\* the box-nesting depth of a clause, literal or atom text: every "(" of it opens
\* the inner clause of a box
BoxDepth(t) == NestingFrom(t, 1, 0, 0)

\* the text is a propositional atom: "A" and decimal digits
IsPropositionalAtom(t) ==
    /\ Len(t) >= 2
    /\ t[1] = 65
    /\ \A k \in 2 .. Len(t) : t[k] \in 48 .. 57

\* C5: with modal depth d every clause of the formula nests boxes at most d deep,
\* as does every literal and atom under construction at its own depth, and an atom
\* made at depth 0 is a propositional atom.
C5_DepthBound ==
    /\ \A k \in 1 .. Len(clauses) : BoxDepth(clauses[k]) <= cfg.depth
    /\ \A k \in 1 .. Len(output_lines) : BoxDepth(output_lines[k]) <= cfg.depth + 1
    /\ \A k \in 1 .. Len(stack) :
         /\ \A n \in 1 .. Len(stack[k].clause) :
              BoxDepth(stack[k].clause[n]) <= stack[k].d
         /\ stack[k].pc = "sign" =>
              /\ BoxDepth(stack[k].atom) <= stack[k].d
              /\ stack[k].d = 0 => IsPropositionalAtom(stack[k].atom)

\* a finished formula of depth d >= 1 with a clause that nests boxes d deep
C5_Witness ==
    /\ pc = "done"
    /\ cfg.depth >= 1
    /\ \E k \in 1 .. Len(clauses) : BoxDepth(clauses[k]) = cfg.depth

\* C6: a clause that rnd_clause returns because an attempt passed the check has no
\* two literals with the same atom.
C6_SuccessHasDistinctAtoms ==
    \A k \in 1 .. Len(stack) :
        stack[k].pc = "return_ok" => ~HasRepeatedAtom(stack[k].clause)

\* a clause of two literals, one negated, that passed the check after a failed attempt
C6_Witness ==
    /\ InClause("return_ok")
    /\ Top.attempts >= 1
    /\ Len(Top.clause) = 2
    /\ \E n \in 1 .. 2 : Top.clause[n][1] = 172

\* K can be returned by rnd_length at depth d under configuration c
lengths_at(c, d) == { rnd_length(d, c.C, u) : u \in Draws }

\* P can be returned by rnd_propnum at depth d for length K under configuration c
propnums_at(c, d, K) ==
    IF propnum_raises(d, c.p, K) THEN {}
    ELSE { rnd_propnum(d, c.p, K, u) : u \in Draws }

\* atoms, each with and without the negation sign
Signed(atoms) == atoms \cup { ch_not \o a : a \in atoms }

RECURSIVE AttemptClauses(_, _)
\* the literal lists that the draws of one attempt of rnd_clause at depth d can build
AttemptClauses(c, d) ==
    LET props == { rnd_propositional_atom(n) : n \in 1 .. c.variables }
        atoms == IF d = 0 THEN props
                 ELSE { rnd_box(n) \o ch_lparen \o clause_text(cl) \o ch_rparen :
                          n \in 1 .. c.boxes, cl \in AttemptClauses(c, d - 1) }
    IN  UNION { UNION { { cl \in [1 .. (IF P > K THEN P ELSE K) -> Signed(props \cup atoms)] :
                            \A n \in DOMAIN cl :
                                cl[n] \in (IF n <= P THEN Signed(props) ELSE Signed(atoms)) } :
                        P \in propnums_at(c, d, K) } :
                K \in lengths_at(c, d) }

\* some outcome of the draws of one attempt at depth d has no repeated atom
Feasible(c, d) == \E cl \in AttemptClauses(c, d) : ~HasRepeatedAtom(cl)

\* Feasible, for every configuration explored and every depth
Feasibility ==
    [c \in Configs |-> [d \in 0 .. MaxDepth |-> IF d <= c.depth THEN Feasible(c, d) ELSE FALSE]]

SortedTexts(clause) ==
    { join(<<32, 8744, 32>>, [n \in 1 .. Len(clause) |-> clause[q[n]]]) :
        q \in { r \in [1 .. Len(clause) -> 1 .. Len(clause)] :
                  /\ \A a, b \in 1 .. Len(clause) : a # b => r[a] # r[b]
                  /\ \A a \in 1 .. Len(clause) - 1 :
                       ~str_lt(clause[r[a + 1]], clause[r[a]]) } }

\* C8: when the 100th attempt fails the check too, rnd_clause neither raises nor
\* retries: it goes to its final return with the clause of that attempt, and the
\* caller (rnd_CNF's list test, or the enclosing modal atom) receives the sorted
\* text of that clause, which has a repeated atom.
C8_LastClauseReturned ==
    [][ /\ (InClause("check") /\ Top.attempts = 99 /\ HasRepeatedAtom(Top.clause))
            => /\ pc' = "cnf"
               /\ stack' = SetTop([Top EXCEPT !.attempts = 100, !.pc = "return_last"])
        /\ InClause("return_last")
            => /\ Top.attempts = 100
               /\ HasRepeatedAtom(Top.clause)
               /\ pc' = "cnf"
               /\ Len(stack') = Len(stack) - 1
               /\ \E text \in SortedTexts(Top.clause) :
                    IF Len(stack) = 1
                    THEN /\ cnf_attempts' = cnf_attempts + 1
                         /\ \E n \in 1 .. Len(clauses') : clauses'[n] = text
                         /\ clauses' \in {clauses, Append(clauses, text)}
                    ELSE stack'[Len(stack')].atom
                           = stack[Len(stack')].atom \o <<40>> \o text \o <<41>>
      ]_vars

\* the final return of a call whose 100 attempts all failed, inside a modal atom
C8_Witness ==
    /\ InClause("return_last")
    /\ Top.attempts = 100
    /\ Len(stack) >= 2
    /\ Len(Top.clause) >= 2
    /\ HasRepeatedAtom(Top.clause)

\* the validated parameters of the configuration that are out of range
Offending(c) ==
    {x \in {"depth"} : c.depth < 0} \cup {x \in {"clauses"} : c.clauses < 1}
    \cup {x \in {"variables"} : c.variables < 1} \cup {x \in {"boxes"} : c.boxes < 1}

\* C9: a run with depth < 0, clauses < 1, variables < 1 or boxes < 1 ends in the
\* error outcome, naming an offending parameter, with no random draw consumed, no
\* generator call made and no output line or text produced.
C9_InvalidRejected ==
    (Offending(cfg) # {} /\ pc # "start") =>
        /\ pc = "error"
        /\ err \in Offending(cfg)
        /\ ~drawn
        /\ stack = <<>>
        /\ cnf_calls = 0
        /\ output_lines = <<>>
        /\ output_text = <<>>

\* a seeded run rejected for its number of boxes alone
C9_Witness ==
    /\ pc = "error"
    /\ err = "boxes"
    /\ Offending(cfg) = {"boxes"}
    /\ seeded = 1

\* the clause-length table or the literal-mix table has fewer than depth + 1 levels
ShortTable(c) == Len(c.C) < c.depth + 1 \/ Len(c.p) < c.depth + 1

C11_SamplerNeverRaises ==
    pc # "raised" /\ err # "IndexError"

\* the depth is outside the clause-length table
LengthOutside(f) == f.d >= Len(cfg.C)

\* the depth is outside the literal-mix table, or the clause length is
PropnumOutside(f) == f.d >= Len(cfg.p) \/ f.K - 1 >= Len(cfg.p[f.d + 1])

\* C12: a rnd_length call at a depth outside C returns 3, a rnd_propnum call at a
\* depth outside p or with K - 1 outside p[d] returns 0, whatever the draw offered by
\* the random source, and neither call consumes a draw.
C12_FallbackIsDeterministic ==
    [][/\ (InClause("length") /\ LengthOutside(Top)) =>
            /\ Len(stack') = Len(stack)
            /\ stack'[Len(stack)].K = 3
            /\ stack'[Len(stack)].pc = "propnum"
            /\ drawn' = drawn
            /\ last_draw' = "none"
       /\ (InClause("propnum") /\ PropnumOutside(Top)) =>
            /\ pc' = "cnf"
            /\ Len(stack') = Len(stack)
            /\ stack'[Len(stack)].P = 0
            /\ drawn' = drawn
            /\ last_draw' = "none"]_vars

\* both fallbacks taken in the first attempt of a run: K = 3, P = 0, and the random
\* source is still untouched
C12_Witness ==
    /\ InClause("atom")
    /\ LengthOutside(Top)
    /\ PropnumOutside(Top)
    /\ Top.K = 3
    /\ Top.P = 0
    /\ Top.j = 0
    /\ ~drawn

---------------------------------------------------------------------------
(* The scenario of the clause-length table [[0,0,1]] *)

\* depth 0, 2 clauses, 2 variables, 1 box, C = [[0,0,1]], and p with all the weight
\* on P = K for K = 1, 2, 3
ScenarioConfigs == { Config(0, 2, 2, 1, << <<0, 0, 1>> >>, p_all(1), 1, "int") }

\* every atom drawn so far is A1 and every sign drawn so far is the negative one
OneLiteral ==
    \A k \in 1 .. Len(stack) :
        /\ stack[k].atom \in {<<>>, rnd_propositional_atom(1)}
        /\ \A l \in 1 .. Len(stack[k].clause) :
             stack[k].clause[l] = make_literal(rnd_propositional_atom(1), TRUE)

\* the steps of the generator in which random.randint returns 1 and rnd_sign's draw
\* is below 0.5; the draws of rnd_length and rnd_propnum are free
ScenarioNext == Next /\ OneLiteral'

ScenarioInit == InitFor(ScenarioConfigs)

\* the runs of the scenario whose atom and sign draws are those of ScenarioNext: a
\* part of the scenario's runs (the whole has some 10^8 states: 20 rnd_clause calls
\* of 100 attempts each over every prefix of every clause), so what one of these
\* runs does, the scenario does
ScenarioSpec == ScenarioInit /\ [][ScenarioNext]_vars

RECURSIVE count_of(_, _)
\* how many times the character occurs in the text
count_of(text, ch) ==
    IF text = <<>> THEN 0
    ELSE (IF <<Head(text)>> = ch THEN 1 ELSE 0) + count_of(Tail(text), ch)

\* C13 as stated: the scenario's output is exactly 2 distinct clauses, each of exactly
\* 3 literals (3 atoms joined by 2 disjunction signs) over the variables 1 and 2,
\* and without a box.
C13_ScenarioOutput ==
    (cfg \in ScenarioConfigs /\ pc = "done") =>
        /\ Len(clauses) = 2
        /\ clauses[1] # clauses[2]
        /\ \A k \in 1 .. Len(clauses) :
             LET text == clauses[k]
             IN  /\ count_of(text, ch_A) = 3
                 /\ count_of(text, ch_or) = 2
                 /\ count_of(text, ch_box) = 0
                 /\ \A q \in 1 .. Len(text) :
                      <<text[q]>> = ch_A =>
                          q < Len(text) /\ <<text[q + 1]>> \in {str(1), str(2)}

\* the text holds "()": a clause, or the clause of a modal atom, without a literal
HasEmptyClause(text) ==
    \E q \in 1 .. (Len(text) - 1) :
        <<text[q]>> = ch_lparen /\ <<text[q + 1]>> = ch_rparen

\* C14 as stated: no clause of the generated output, at the top level or inside a
\* modal atom, is empty, whatever tables the driver was given.
C14_NoEmptyClause ==
    ~HasEmptyClause(output_text)

\* C15 as stated: in every attempt of rnd_clause the sampled values satisfy
\* 0 <= P <= K, the P propositional literals come first, and the finished clause of
\* the attempt has exactly K literals.
C15_PropnumWithinLength ==
    \A k \in 1 .. Len(stack) :
        LET f == stack[k]
        IN  /\ f.pc \notin {"length", "propnum"} => (0 <= f.P /\ f.P <= f.K)
            /\ f.pc = "prop_atom" => f.j < f.P
            /\ f.pc = "atom" => (f.P <= f.j /\ f.j < f.K)
            /\ f.pc = "check" => Len(f.clause) = f.K

\* C19 as stated: when the selected weight vector has a positive total, the length
\* returned by rnd_length and the count returned by rnd_propnum have a strictly
\* positive weight in it, for every draw in [0, total).
C19_PositiveWeightOutcome ==
    \A k \in 1 .. Len(stack) :
        LET f == stack[k]
        IN  /\ (f.pc # "length" /\ length_draws(f.d, cfg.C)) =>
                  cfg.C[f.d + 1][f.K] > 0
            /\ (f.pc \notin {"length", "propnum"} /\ propnum_draws(f.d, cfg.p, f.K)) =>
                  py_index(cfg.p[f.d + 1], f.K - 1)[f.P + 1] > 0

\* C20: a rnd_length call at a depth inside C whose vector C[d] has only zero weights
\* returns the length of that vector and consumes no draw.
C20_ZeroVectorLength ==
    [][(InClause("length") /\ ~LengthOutside(Top) /\ sum(cfg.C[Top.d + 1]) = 0) =>
          /\ Len(stack') = Len(stack)
          /\ stack'[Len(stack)].K = Len(cfg.C[Top.d + 1])
          /\ stack'[Len(stack)].pc = "propnum"
          /\ drawn' = drawn
          /\ last_draw' = "none"]_vars

\* the first rnd_length call of a run has returned 2 for the vector [0, 0] and the
\* random source is still untouched
C20_Witness ==
    /\ InClause("propnum")
    /\ cfg.C = <<vec_zero>>
    /\ Top.K = 2
    /\ Top.attempts = 0
    /\ ~drawn

\* C21 as stated: a rnd_propnum call with the depth inside p, K - 1 inside p[d] and
\* every weight of p[d][K-1] zero returns the final index of that vector.
C21_ZeroVectorPropnum ==
    \A k \in 1 .. Len(stack) :
        LET f == stack[k]
        IN  (/\ f.pc \notin {"length", "propnum"}
             /\ ~PropnumOutside(f)
             /\ ~propnum_raises(f.d, cfg.p, f.K)
             /\ sum(py_index(cfg.p[f.d + 1], f.K - 1)) = 0)
                => f.P = Len(py_index(cfg.p[f.d + 1], f.K - 1)) - 1

RECURSIVE split_top(_, _, _, _)
\* the parts of the text from place k on that " ∨ " separates outside parentheses,
\* cur being the part under way and depth the parentheses open
split_top(t, k, depth, cur) ==
    IF k > Len(t) THEN <<cur>>
    ELSE IF depth = 0 /\ k + 2 <= Len(t) /\ SubSeq(t, k, k + 2) = <<32, 8744, 32>>
         THEN <<cur>> \o split_top(t, k + 3, 0, <<>>)
    ELSE split_top(t, k + 1,
                   depth + (IF t[k] = 40 THEN 1 ELSE IF t[k] = 41 THEN -1 ELSE 0),
                   Append(cur, t[k]))

\* the literals a caller reads from the clause text rnd_clause returned
Literals(text) == IF text = <<>> THEN <<>> ELSE split_top(text, 1, 0, <<>>)

\* C22: the literals read from the text that a rnd_clause call returns hold two
\* literals with the same atom if and only if the call counted 100 failed attempts,
\* which is if and only if it returns through its final return statement.
C22_DegradedIffExhausted ==
    \A k \in 1 .. Len(stack) :
        Returning(stack[k]) =>
            /\ HasRepeatedAtom(Literals(clause_text(stack[k].clause)))
                 <=> stack[k].attempts = 100
            /\ stack[k].attempts = 100 <=> stack[k].pc = "return_last"

\* a call over two variables, where an attempt can pass the check, returns a clause
\* with a repeated atom after 100 failed attempts
C22_Witness ==
    /\ InClause("return_last")
    /\ cfg.variables >= 2
    /\ Top.attempts = 100
    /\ Len(Top.clause) = 2
    /\ HasRepeatedAtom(Literals(clause_text(Top.clause)))

\* the clause text inside the parentheses of a modal atom "□n(...)"
InnerText(atom) ==
    LET open == CHOOSE q \in 1 .. Len(atom) :
                    atom[q] = 40 /\ \A r \in 1 .. (q - 1) : atom[r] # 40
    IN  SubSeq(atom, open + 1, Len(atom) - 1)

RECURSIVE DeepRepeated(_)
\* the clause of this text, or the inner clause of a modal atom at some nesting
\* level of it, has two literals with the same atom
DeepRepeated(text) ==
    LET lits == Literals(text)
    IN  \/ HasRepeatedAtom(lits)
        \/ \E n \in 1 .. Len(lits) :
              LET atom == IF lits[n][1] = 172 THEN Tail(lits[n]) ELSE lits[n]
              IN  atom[1] = 9633 /\ DeepRepeated(InnerText(atom))

\* C23 as stated: the top-level clause that rnd_clause returns through its success
\* path has no two literals with the same atom at any nesting level.
C23_SuccessCleanAtEveryLevel ==
    (InClause("return_ok") /\ Len(stack) = 1) => ~DeepRepeated(clause_text(Top.clause))

\* C23 as amended: a clause that rnd_clause returns through its success path has no
\* two literals with the same atom among its own literals; a clause at some nesting
\* level of a returned clause has two such literals if and only if the rnd_clause
\* call that built a clause of it returned through the final return statement,
\* after 100 failed attempts.
C23_RepeatedOnlyWhereExhausted ==
    \A k \in 1 .. Len(stack) :
        Returning(stack[k]) =>
            /\ stack[k].pc = "return_ok" =>
                  ~HasRepeatedAtom(Literals(clause_text(stack[k].clause)))
            /\ stack[k].pc = "return_last" => stack[k].attempts = 100
            /\ DeepRepeated(clause_text(stack[k].clause))
                 <=> (stack[k].pc = "return_last" \/ stack[k].degraded_inner)

\* a top-level clause returned through the success path whose modal atom holds the
\* clause of an inner call that failed 100 times
C23_Witness ==
    /\ InClause("return_ok")
    /\ Len(stack) = 1
    /\ Top.degraded_inner
    /\ DeepRepeated(clause_text(Top.clause))
    /\ ~HasRepeatedAtom(Top.clause)

\* C24: random.seed is called at most once, in main's startup before any draw, and
\* only when a seed is given; after the startup the number of its calls never
\* changes, so no formula reseeds the source; and every formula, the first and the
\* later ones, begins its rnd_CNF with an empty clause list and a zero attempt count.
C24_FreshListOneSeed ==
    /\ seeded <= 1
    /\ pc = "start" => (seeded = 0 /\ ~drawn /\ i = 0)
    /\ pc # "start" => seeded = (IF cfg.seed = "None" THEN 0 ELSE 1)
    /\ (pc = "cnf" /\ cnf_calls = 0) => (clauses = <<>> /\ cnf_attempts = 0)
    /\ pc = "cnf" => (Len(clauses) <= cnf_attempts /\ cnf_attempts <= cnf_calls)

\* a seeded run of two formulas of one clause has ended, and the second formula
\* accepted the very clause of the first
C24_Witness ==
    /\ pc = "done"
    /\ cfg.count = 2
    /\ cfg.clauses = 1
    /\ seeded = 1
    /\ drawn
    /\ Len(output_lines) = 5
    /\ output_lines[2] = output_lines[5]
    /\ output_lines[2] # <<>>

\* the multiset of the elements of a list: how often each occurs
BagOf(list) ==
    [x \in { list[n] : n \in 1 .. Len(list) } |->
        Cardinality({ n \in 1 .. Len(list) : list[n] = x })]

\* the lists with the elements of this one in every order
Reorderings(list) ==
    { [n \in 1 .. Len(list) |-> list[q[n]]] :
        q \in { r \in [1 .. Len(list) -> 1 .. Len(list)] :
                  \A a, b \in 1 .. Len(list) : a # b => r[a] # r[b] } }

\* C25: the text with which a rnd_clause call returns is the text of every
\* permutation of the returned attempt's literals, and the literals read back from
\* the text are, as a multiset, the literals of the attempt: the text determines the
\* multiset, so attempts with different multisets return different texts.
C25_TextOfMultiset ==
    \A k \in 1 .. Len(stack) :
        Returning(stack[k]) =>
            LET text == clause_text(stack[k].clause)
            IN  /\ \A other \in Reorderings(stack[k].clause) : clause_text(other) = text
                /\ BagOf(Literals(text)) = BagOf(stack[k].clause)

\* a call returns a clause of two different literals that were not drawn in sorted order
C25_Witness ==
    /\ InClause("return_ok")
    /\ Len(Top.clause) = 2
    /\ str_lt(Top.clause[2], Top.clause[1])
    /\ clause_text(Top.clause) = clause_text(<<Top.clause[2], Top.clause[1]>>)

RECURSIVE split_at(_, _, _, _)
\* Python's text.split(sep) for a separator of one character, from place k on, cur
\* being the part under way
split_at(text, sep, k, cur) ==
    IF k > Len(text) THEN <<cur>>
    ELSE IF <<text[k]>> = sep THEN <<cur>> \o split_at(text, sep, k + 1, <<>>)
    ELSE split_at(text, sep, k + 1, Append(cur, text[k]))

\* C26: format_formula of a list of n >= 1 clauses is n lines, the k-th being two
\* spaces and the k-th clause in parentheses, followed by " ∧" on the first n - 1
\* lines and by "." on the last; format_formula of the empty list is the empty string.
C26_FormatFormula ==
    pc = "formatted" =>
        LET text == output_lines[1]
            n == Len(clauses)
            lines == split_at(text, <<10>>, 1, <<>>)
        IN  IF n = 0 THEN text = <<>>
            ELSE /\ Len(lines) = n
                 /\ \A k \in 1 .. n :
                      lines[k] = <<32, 32, 40>> \o clauses[k] \o <<41>>
                                 \o (IF k < n THEN <<32, 8743>> ELSE <<46>>)

\* three different clauses were formatted: three lines, the last one alone ends with "."
C26_Witness ==
    /\ pc = "formatted"
    /\ Len(clauses) = 3
    /\ clauses[1] # clauses[2] /\ clauses[2] # clauses[3] /\ clauses[1] # clauses[3]
    /\ count_of(output_lines[1], ch_dot) = 1
    /\ count_of(output_lines[1], ch_and) = 2
    /\ count_of(output_lines[1], ch_newline) = 2

\* the larger of two integers
Larger(a, b) == IF a > b THEN a ELSE b

\* C27: in every rnd_clause call, whatever the number of failed attempts before,
\* the clause holds exactly the literals appended in the attempt under way (j of
\* them), at most as many as the K and P drawn in this attempt allow, and the clause
\* checked and returned has exactly the literals of the K and P of its own attempt.
C27_OnlyFinalAttempt ==
    \A k \in 1 .. Len(stack) :
        LET f == stack[k]
        IN  /\ f.pc \notin {"length", "propnum"} =>
                  /\ Len(f.clause) = f.j
                  /\ f.j <= Larger(f.K, f.P)
            /\ f.pc \in {"prop_atom", "atom", "inner", "sign"} =>
                  f.j < Larger(f.K, f.P)
            /\ f.pc \in {"check", "return_ok", "return_last"} =>
                  Len(f.clause) = Larger(f.K, f.P)

\* over one variable with lengths 1 and 2: after failed attempts, which had two
\* literals each, the call returns the one literal of its last attempt
C27_Witness ==
    /\ InClause("return_ok")
    /\ cfg.variables = 1
    /\ cfg.C = <<vec_two>>
    /\ cfg.p = p_none
    /\ Top.attempts >= 2
    /\ Top.K = 1
    /\ Len(Top.clause) = 1

\* the atom is a box with its inner clause in closed parentheses
ClosedModalAtom(atom) ==
    /\ Len(atom) >= 4
    /\ atom[1] = 9633
    /\ atom[Len(atom)] = 41
    /\ count_of(atom, ch_lparen) = count_of(atom, ch_rparen)

\* C28 as stated, for the literals after the first P: each of them draws a box index
\* first, whatever the depth.
C28_RemainingLiteralsDrawBox ==
    [][InClause("atom") => last_draw' = "box"]_vars

\* C28 as amended: the draws of an attempt are consumed in this order.  Only the
\* innermost active call draws, every call below it waiting for the inner clause of
\* a modal atom whose box is drawn and whose sign is not.  The draw for K is the
\* first of an attempt and the draw for P follows it; a propositional atom is drawn
\* for the literals j < P, and for the others at depth 0; a box is drawn for the
\* literals P <= j < K at depth > 0 and starts the inner call at depth - 1; a sign
\* is drawn only for an atom that is complete, a modal atom with its inner clause
\* returned, and ends the literal.
C28_DrawOrder ==
    /\ [](\A k \in 1 .. (Len(stack) - 1) :
            /\ stack[k].pc = "inner"
            /\ stack[k].atom \in { rnd_box(n) : n \in 1 .. cfg.boxes }
            /\ stack[k].d > 0
            /\ stack[k].P <= stack[k].j /\ stack[k].j < stack[k].K)
    /\ [][LET n == Len(stack)
          IN  /\ last_draw' = "length" =>
                    /\ InClause("length")
                    /\ Len(stack') = n
                    /\ stack'[n].pc = "propnum"
              /\ last_draw' = "propnum" =>
                    /\ InClause("propnum")
                    /\ last_draw \in {"length", "none"}
                    /\ Len(stack') = n
                    /\ stack'[n].j = 0
                    /\ stack'[n].clause = <<>>
              /\ last_draw' = "atom" =>
                    /\ \/ InClause("prop_atom") /\ Top.j < Top.P
                       \/ InClause("atom") /\ Top.d = 0 /\ Top.P <= Top.j /\ Top.j < Top.K
                    /\ Len(Top.clause) = Top.j
                    /\ Len(stack') = n
                    /\ stack'[n].pc = "sign"
                    /\ IsPropositionalAtom(stack'[n].atom)
                    /\ stack'[n].clause = Top.clause
              /\ last_draw' = "box" =>
                    /\ InClause("atom")
                    /\ Top.d > 0 /\ Top.P <= Top.j /\ Top.j < Top.K
                    /\ Len(stack') = n + 1
                    /\ stack'[n].pc = "inner"
                    /\ stack'[n + 1] = new_frame(Top.d - 1)
              /\ last_draw' = "sign" =>
                    /\ InClause("sign")
                    /\ IF Top.j < Top.P \/ Top.d = 0
                       THEN IsPropositionalAtom(Top.atom) /\ last_draw = "atom"
                       ELSE ClosedModalAtom(Top.atom) /\ last_draw = "none"
                    /\ Len(stack') = n
                    /\ stack'[n].j = Top.j + 1
                    /\ Len(stack'[n].clause) = Top.j + 1
                    /\ stack'[n].clause[Top.j + 1] \in {Top.atom, <<172>> \o Top.atom}
         ]_vars

\* the sign of the second literal of a clause was just drawn: the first literal is
\* propositional, the second a modal atom with its inner clause
C28_Witness ==
    /\ pc = "cnf"
    /\ Len(stack) = 1
    /\ last_draw = "sign"
    /\ Top.K = 2
    /\ Top.P = 1
    /\ Len(Top.clause) = 2
    /\ IsPropositionalAtom(literal_atom(Top.clause[1]))
    /\ ClosedModalAtom(literal_atom(Top.clause[2]))

\* C29: once its first rnd_clause call has returned, the clause list of rnd_CNF is
\* not empty, and the list it returns to main has at least 1 clause; a list returned
\* with fewer than L clauses has between 1 and L - 1 of them and comes after 10*L
\* calls.  The text of the first call is accepted, and every later text is appended
\* at the end if it is not in the list and leaves the list as it is otherwise, so
\* the list holds the texts returned so far, each once, in the order of their first
\* occurrence.
C29_NeverEmpty ==
    /\ []((pc = "cnf" /\ cnf_attempts >= 1) => Len(clauses) >= 1)
    /\ [](CNFReturned =>
            /\ Len(clauses) >= 1
            /\ Len(clauses) < cfg.clauses =>
                  /\ Len(clauses) <= cfg.clauses - 1
                  /\ cnf_attempts = 10 * cfg.clauses)
    /\ [][((InClause("return_ok") \/ InClause("return_last")) /\ Len(stack) = 1) =>
            LET text == clause_text(Top.clause)
            IN  /\ cnf_attempts = 0 => clauses' = <<text>>
                /\ clauses' = IF \E k \in 1 .. Len(clauses) : clauses[k] = text
                              THEN clauses ELSE Append(clauses, text)
                /\ cnf_attempts' = cnf_attempts + 1
         ]_vars

\* a formula of L = 3 returned with one clause: the 30 calls gave the same text
C29_Witness ==
    /\ pc = "done"
    /\ cfg.clauses = 3
    /\ cfg.count = 1
    /\ Len(clauses) = 1
    /\ cnf_attempts = 30
    /\ clauses[1] # <<>>

---------------------------------------------------------------------------
(* The LCKS5 conversion of FormulaGenerator/wrapper.py *)

ch_minus == <<45>>
ch_zero == <<48>>
ch_one == <<49>>
ch_langle == <<60>>
ch_rangle == <<62>>
ch_lbracket == <<91>>
ch_rbracket == <<93>>
ch_p == <<112>>

\* the regular expression \d, on the characters of the modelled formulas
is_digit(c) == c \in 48 .. 57

RECURSIVE digits_end(_, _)
\* \d+ at place q of the text: the place after the longest run of digits from q on
digits_end(text, q) ==
    IF q <= Len(text) /\ is_digit(text[q]) THEN digits_end(text, q + 1) ELSE q

RECURSIVE py_int(_)
\* Python's int(s) of a string of decimal digits
py_int(s) ==
    IF s = <<>> THEN 0
    ELSE 10 * py_int(SubSeq(s, 1, Len(s) - 1)) + (s[Len(s)] - 48)

\* Python's f"{n}" of an integer
py_str(n) == IF n < 0 THEN ch_minus \o str(-n) ELSE str(n)

\* fault variant of new_idx: the index is kept
new_idx_kept(idx) == idx

\* "new_idx = idx - 1"
new_idx(idx) == idx - 1

RECURSIVE re_sub(_, _, _, _)
\* re.sub(r'\[(\d+)\]', decrement_bracket, text), for open "[" and close "]", and
\* re.sub(r'<(\d+)>', decrement_angle, text), for "<" and ">", from place q on: the
\* leftmost matches that do not overlap are replaced, the rest is copied
re_sub(text, q, open, close) ==
    IF q > Len(text) THEN <<>>
    ELSE LET e == digits_end(text, q + 1)
         IN  IF <<text[q]>> = open /\ e > q + 1 /\ e <= Len(text) /\ <<text[e]>> = close
             THEN open \o py_str(new_idx(py_int(SubSeq(text, q + 1, e - 1)))) \o close
                  \o re_sub(text, e + 1, open, close)
             ELSE <<text[q]>> \o re_sub(text, q + 1, open, close)

\* convert_to_lcks5(formula): the brackets first, then the angles on that result
convert_to_lcks5(f) ==
    re_sub(re_sub(f, 1, ch_lbracket, ch_rbracket), 1, ch_langle, ch_rangle)

\* the characters of the formulas given to convert_to_lcks5
Alphabet == { c[1] : c \in {ch_lbracket, ch_rbracket, ch_langle, ch_rangle,
                            ch_zero, ch_one, ch_p} }

\* every text of at most MaxText characters
Formulas == UNION { [1 .. n -> Alphabet] : n \in 0 .. MaxText }

\* wrapper.py alone, about to convert one formula
WrapperAlone ==
    /\ GeneratorIdle
    /\ PipelineIdle
    /\ formula \in Formulas
    /\ lcks5 = <<>>
    /\ ConverterIdle

\* "converted = process_formulas(formulas, 'LCKS5')" for the one formula
ConvertToLcks5 ==
    /\ lcks5 = <<>>
    /\ lcks5' = <<convert_to_lcks5(formula)>>
    /\ UNCHANGED <<generator_vars, converter_vars, formula, args, pipeline_pc, cmd_index,
                   child, log, generated_file, converted_file, exit_status, reported>>

WrapperNext == ConvertToLcks5

WrapperSpec == WrapperAlone /\ [][WrapperNext]_vars

---------------------------------------------------------------------------
(* The converter of FormulaGenerator/converter.py on the generator's output *)

ch_amp == <<38>>
ch_semicolon == <<59>>
ch_v == <<118>>
ch_bar == <<124>>
ch_tilde == <<126>>

\* the characters Python's str.strip() removes
is_space(c) == c \in {9, 10, 11, 12, 13, 28, 29, 30, 31, 32, 133, 160}

RECURSIVE lstrip(_)
lstrip(s) == IF s # <<>> /\ is_space(Head(s)) THEN lstrip(Tail(s)) ELSE s

RECURSIVE rstrip(_)
rstrip(s) ==
    IF s # <<>> /\ is_space(s[Len(s)]) THEN rstrip(SubSeq(s, 1, Len(s) - 1)) ELSE s

\* s.strip()
strip(s) == rstrip(lstrip(s))

\* s.endswith(suffix)
endswith(s, suffix) ==
    /\ Len(s) >= Len(suffix)
    /\ SubSeq(s, Len(s) - Len(suffix) + 1, Len(s)) = suffix

RECURSIVE replace(_, _, _)
\* s.replace(old, new) for an old of one character
replace(s, old, new) ==
    IF s = <<>> THEN <<>>
    ELSE (IF <<Head(s)>> = old THEN new ELSE <<Head(s)>>) \o replace(Tail(s), old, new)

RECURSIVE sub_props(_, _)
\* re.sub(r'A(\d+)', r'p\1', formula) from place q on
sub_props(s, q) ==
    IF q > Len(s) THEN <<>>
    ELSE (IF <<s[q]>> = ch_A /\ q < Len(s) /\ is_digit(s[q + 1]) THEN ch_p ELSE <<s[q]>>)
         \o sub_props(s, q + 1)

RECURSIVE first_rparen(_, _)
\* the place of the first ")" from place q on, 0 when there is none
first_rparen(s, q) ==
    IF q > Len(s) THEN 0
    ELSE IF <<s[q]>> = ch_rparen THEN q
    ELSE first_rparen(s, q + 1)

RECURSIVE sub_boxes(_, _)
\* one re.sub(r'□(\d+)\(([^)]+)\)', replace_box, formula) from place q on: a box,
\* its digits, "(", at least one character up to the first ")" becomes
\* f'[{agent}] ({inner_formula})'
sub_boxes(s, q) ==
    IF q > Len(s) THEN <<>>
    ELSE LET e == digits_end(s, q + 1)
             c == IF e <= Len(s) THEN first_rparen(s, e + 1) ELSE 0
         IN  IF <<s[q]>> = ch_box /\ e > q + 1 /\ e <= Len(s) /\ <<s[e]>> = ch_lparen
                /\ c > e + 1
             THEN ch_lbracket \o SubSeq(s, q + 1, e - 1) \o ch_rbracket \o ch_space
                  \o ch_lparen \o SubSeq(s, e + 1, c - 1) \o ch_rparen
                  \o sub_boxes(s, c + 1)
             ELSE <<s[q]>> \o sub_boxes(s, q + 1)

RECURSIVE replace_boxes(_)
\* "while re.search(...): formula = re.sub(...)"
replace_boxes(s) ==
    LET t == sub_boxes(s, 1)
    IN  IF t # s THEN replace_boxes(t) ELSE s

\* convert_to_intohylo(formula)
convert_to_intohylo(f) ==
    replace_boxes(
        sub_props(
            replace(replace(replace(replace(strip(f), ch_not, ch_tilde),
                                    ch_and, ch_amp),
                            ch_or, ch_bar),
                    ch_v, ch_bar),
            1))

RECURSIVE collect_formulas(_, _, _, _)
\* "for line in lines" from the k-th line on, and the flush of the last formula
collect_formulas(lines, k, formulas, current_formula) ==
    LET flushed == IF current_formula # <<>>
                   THEN Append(formulas, join(ch_space, current_formula))
                   ELSE formulas
    IN  IF k > Len(lines) THEN flushed
        ELSE LET line == strip(lines[k])
             IN  IF line = <<>>
                 THEN collect_formulas(lines, k + 1, flushed, <<>>)
                 ELSE IF \/ endswith(line, ch_and) \/ endswith(line, ch_amp)
                         \/ endswith(line, ch_or) \/ endswith(line, ch_bar)
                 THEN collect_formulas(lines, k + 1, formulas,
                                       Append(current_formula, line))
                 ELSE IF /\ current_formula # <<>>
                         /\ \/ startswith(line, ch_lparen) \/ startswith(line, ch_not)
                            \/ startswith(line, ch_tilde)
                 THEN collect_formulas(lines, k + 1, formulas,
                                       Append(current_formula, line))
                 ELSE collect_formulas(lines, k + 1, flushed, <<line>>)

\* convert_multiple_formulas(text)
convert_multiple_formulas(text) ==
    LET lines == split_at(strip(text), ch_newline, 1, <<>>)
        found == collect_formulas(lines, 1, <<>>, <<>>)
        parts == split_at(text, ch_semicolon, 1, <<>>)
        formulas == IF Len(found) = 1 /\ count_of(text, ch_semicolon) > 0
                    THEN SelectSeq([k \in 1 .. Len(parts) |-> strip(parts[k])],
                                   LAMBDA f : f # <<>>)
                    ELSE found
        kept == SelectSeq(formulas, LAMBDA f : f # <<>>)
    IN  [k \in 1 .. Len(kept) |-> convert_to_intohylo(kept[k])]

\* runs of the generator that write 2 .. MaxCount formulas: two clauses of one
\* literal at depth 0, and one clause of one modal literal at depth 1
ConverterConfigs ==
    { Config(0, 2, 1, 1, <<vec_one>>, p_none, count, "int") : count \in 2 .. MaxCount }
    \cup { Config(1, 1, 1, 1, <<vec_one, vec_one>>, p_none, count, "int") :
              count \in 2 .. MaxCount }

\* "python3 converter.py -i generated_file": "content = f.read()" of the text that
\* generator.py wrote, and "results = convert_multiple_formulas(content)"
ConvertMultipleFormulas ==
    /\ pc = "done"
    /\ converted = <<>>
    /\ converted' = <<convert_multiple_formulas(output_text)>>
    /\ UNCHANGED <<generator_vars, wrapper_vars, args, pipeline_pc, cmd_index, child, log,
                   generated_file, converted_file, exit_status, reported>>

ConverterInit == InitFor(ConverterConfigs)

ConverterNext == Next \/ ConvertMultipleFormulas

\* generator.py, and then converter.py on the text it wrote
ConverterSpec == ConverterInit /\ [][ConverterNext]_vars

\* C30 as stated: of the text of count >= 2 generated formulas the converter returns
\* exactly count formulas, and no marker line "=== Formula i ===" is part of a
\* converted formula: none begins with a marker and none holds an "=" sign.
C30_MarkersNotConverted ==
    (converted # <<>> /\ cfg.count >= 2) =>
        /\ Len(converted[1]) = cfg.count
        /\ \A k \in 1 .. Len(converted[1]) :
             /\ \A n \in 1 .. cfg.count : ~startswith(converted[1][k], formula_marker(n))
             /\ count_of(converted[1][k], <<61>>) = 0

---------------------------------------------------------------------------
(* Properties of the pipeline *)

\* C16 as stated: every generator command the pipeline starts carries the depth,
\* clause count, variable count, box count, tables and formula count of the
\* pipeline's own command line, and so does the command that wrote the generated
\* file the converter is given; the summary reports that formula count.
C16_PipelineUsesItsArguments ==
    /\ \A k \in 1 .. Len(log) :
         log[k].script = "generator" => log[k].cmd = args_cmd(args)
    /\ (pipeline_pc \notin {"generator", "verify_generated", "exit"}
         /\ generated_file.written_by > 0) =>
            generator_cmds(args.seed)[generated_file.written_by] = args_cmd(args)
    /\ reported >= 0 => reported = args.count

\* the number of generator commands of main
generator_runs == Len(generator_cmds("None"))

\* C17: the commands are started in the order generator (all of them), converter,
\* wrapper; a command is started only when every command before it has exited with
\* status 0; the converter is started only when the generated file exists and the
\* wrapper only when the converted file exists; a command that fails is the last one
\* started and leaves the pipeline exited with status 1, and an exited pipeline
\* takes no further step.
C17_StepsInOrder ==
    /\ [](\A k \in 1 .. Len(log) :
            /\ \A j \in 1 .. (k - 1) : log[j].result = "ok"
            /\ log[k].script = (IF k <= generator_runs THEN "generator"
                                ELSE IF k = generator_runs + 1 THEN "converter"
                                ELSE "wrapper")
            /\ k <= generator_runs + 2
            /\ log[k].script = "converter" => generated_file.exists
            /\ log[k].script = "wrapper" => converted_file
            /\ log[k].result \notin {"ok", "running"} =>
                  pipeline_pc = "exit" /\ exit_status = 1)
    /\ [](exit_status = 1 <=> pipeline_pc = "exit")
    /\ [][pipeline_pc # "exit"]_vars

\* the wrapper was started: all generator commands and the converter had exited with
\* status 0 before
C17_Witness ==
    /\ Len(log) = generator_runs + 2
    /\ log[Len(log)].script = "wrapper"
    /\ log[Len(log)].result = "running"

---------------------------------------------------------------------------
(* Properties of the LCKS5 conversion *)

RECURSIVE Tokens(_, _)
\* the text from place q on as indexed operators [i] ("box") and <i> ("diamond"),
\* and single characters for everything else
Tokens(text, q) ==
    IF q > Len(text) THEN <<>>
    ELSE LET e == digits_end(text, q + 1)
             indexed == e > q + 1 /\ e <= Len(text)
             index == py_int(SubSeq(text, q + 1, e - 1))
         IN  IF indexed /\ <<text[q]>> = ch_lbracket /\ <<text[e]>> = ch_rbracket
             THEN <<[kind |-> "box", index |-> index]>> \o Tokens(text, e + 1)
             ELSE IF indexed /\ <<text[q]>> = ch_langle /\ <<text[e]>> = ch_rangle
             THEN <<[kind |-> "diamond", index |-> index]>> \o Tokens(text, e + 1)
             ELSE <<[kind |-> "char", index |-> text[q]]>> \o Tokens(text, q + 1)

\* the token with its index lowered by one if it is an operator
Lowered(t) == IF t.kind = "char" THEN t ELSE [t EXCEPT !.index = t.index - 1]

RECURSIVE Rendered(_)
\* the text of a sequence of tokens
Rendered(tokens) ==
    IF tokens = <<>> THEN <<>>
    ELSE LET t == Head(tokens)
         IN  (CASE t.kind = "box" -> ch_lbracket \o py_str(t.index) \o ch_rbracket
                [] t.kind = "diamond" -> ch_langle \o py_str(t.index) \o ch_rangle
                [] OTHER -> <<t.index>>)
             \o Rendered(Tail(tokens))

\* the indices of the operators among the tokens
Indices(tokens) ==
    { tokens[k].index : k \in { j \in 1 .. Len(tokens) : tokens[j].kind # "char" } }

\* C18: the result of convert_to_lcks5 is the formula with every [i] and <i> written
\* with i - 1 and every other character kept; when every index of the formula is
\* at least 1, the result has the same operators at the same places, each with its
\* index lowered by one, so its indices run from 0 to the largest index of the
\* formula minus one and none is negative.
C18_Lcks5Decrements ==
    lcks5 # <<>> =>
        LET before == Tokens(formula, 1)
            after == Tokens(lcks5[1], 1)
        IN  /\ lcks5[1] = Rendered([k \in 1 .. Len(before) |-> Lowered(before[k])])
            /\ (\A n \in Indices(before) : n >= 1) =>
                  /\ after = [k \in 1 .. Len(before) |-> Lowered(before[k])]
                  /\ Indices(after) = { n - 1 : n \in Indices(before) }
                  /\ \A n \in Indices(after) :
                       n >= 0 /\ \E m \in Indices(before) : n <= m - 1
                  /\ count_of(lcks5[1], ch_minus) = 0

\* "[1]<1>" was converted to "[0]<0>": a box and a diamond in one formula
C18_Witness ==
    /\ formula = ch_lbracket \o ch_one \o ch_rbracket \o ch_langle \o ch_one \o ch_rangle
    /\ lcks5 = <<ch_lbracket \o ch_zero \o ch_rbracket \o ch_langle \o ch_zero \o ch_rangle>>

====
